---- MODULE Spec2Model ----
(***************************************************************************)
(* A model of the LR parser library lrparser: the automaton builder        *)
(* (Grammar.BuildItems, Grammar.closeItems), the table-driven parse loop   *)
(* (Grammar.Parse) and the example arithmetic grammar.                     *)
(*                                                                         *)
(* Grammar symbols, item strings and state keys are TLA+ strings, built by *)
(* concatenation exactly as the Go code builds them.  Where the code looks *)
(* inside a string (symb[0], column[1:], the < of sort.Slice) the model    *)
(* uses the string's bytes, given by the table Bytes.  Go slices are       *)
(* 0-based, TLA+ sequences 1-based: Rules[i + 1] is the code's Rules[i],   *)
(* and DotPos and reduceAction.rule keep the code's 0-based values.        *)
(***************************************************************************)
EXTENDS Integers, Sequences, FiniteSets, TLC

VARIABLES
    gr,          \* the Grammar: Rules, states, initialState, actionTable, gotoTable
    pc,          \* where the program is: in BuildItems, between calls, or in Parse
    states,      \* BuildItems: the worklist slice `states`
    state,       \* BuildItems: the State being expanded
    tr,          \* BuildItems: the symbols of `tr` the range loop has yet to visit
    terminals,   \* the local `terminals` of BuildItems, later of Parse
    pending,     \* BuildItems: the keys of gr.states the range loop has yet to visit
    keywords,    \* Parse: the local `keywords`
    tokens,      \* Parse: the remaining token list
    input,       \* Parse: the token list Parse was called with
    stateStack,  \* Parse: stateStack
    resultStack, \* Parse: resultStack
    ret,         \* what Parse returned: [value, err], or the panic that ended it
    first,       \* what an earlier NewGrammar call on the same rules produced
    fold,        \* Parse: the latest call of a rule's Conv, with its arguments
    config,      \* how the rule list was made: given, or the arguments of a helper
    clusters,    \* CoalesceSymbols: the parameter `clusters`
    scanPos,     \* CoalesceSymbols: the loop variable i
    tokens2,     \* CoalesceSymbols: tokens2
    other        \* a second Parse call on the same Grammar: its locals and result

vars == <<gr, pc, states, state, tr, terminals, pending, keywords, tokens, input,
          stateStack, resultStack, ret, first, fold, config, clusters, scanPos,
          tokens2, other>>

buildVars == <<gr, states, state, tr, pending>>
parseVars == <<keywords, tokens, input, stateStack, resultStack>>
callVars == <<ret, first>>
helperVars == <<config, clusters, scanPos, tokens2>>

(***************************************************************************)
(* Bounds of the model.                                                    *)
(***************************************************************************)
\* Number tokens carry the values 0..MaxNum.
MaxNum == 2
\* Arithmetic inputs hold at most MaxOps operators.
MaxOps == 2
\* Arbitrary token lists hold at most MaxTokens tokens before the EOF token.
MaxTokens == 3
\* Parse steps are explored while the state stack holds at most MaxStack keys.
MaxStack == 8
\* The numbers of a list in brackets.
MaxElems == 3
\* The clusters of a list handed to CoalesceSymbols.
MaxClusters == 2
\* The iterations of a Parse call that is run to its end in one go.
MaxSteps == 40

(***************************************************************************)
(* Strings.  Bytes gives the UTF-8 bytes of every symbol name and lexeme   *)
(* the model uses.                                                         *)
(***************************************************************************)
Bytes ==
    "Init" :> <<73, 110, 105, 116>> @@
    "Expr" :> <<69, 120, 112, 114>> @@
    "AddExpr" :> <<65, 100, 100, 69, 120, 112, 114>> @@
    "MulExpr" :> <<77, 117, 108, 69, 120, 112, 114>> @@
    "ConstExpr" :> <<67, 111, 110, 115, 116, 69, 120, 112, 114>> @@
    "S" :> <<83>> @@
    "A" :> <<65>> @@
    "B" :> <<66>> @@
    "C" :> <<67>> @@
    "_A" :> <<95, 65>> @@
    "ExprOp1" :> <<69, 120, 112, 114, 79, 112, 49>> @@
    "ExprOp2" :> <<69, 120, 112, 114, 79, 112, 50>> @@
    "Args" :> <<65, 114, 103, 115>> @@
    "ArgsEls" :> <<65, 114, 103, 115, 69, 108, 115>> @@
    "Opt" :> <<79, 112, 116>> @@
    "&(" :> <<38, 40>> @@
    "&)" :> <<38, 41>> @@
    "&," :> <<38, 44>> @@
    "(" :> <<40>> @@
    ")" :> <<41>> @@
    "," :> <<44>> @@
    ">" :> <<62>> @@
    "=" :> <<61>> @@
    ">>" :> <<62, 62>> @@
    ">=" :> <<62, 61>> @@
    ">x" :> <<62, 120>> @@
    ">>=" :> <<62, 62, 61>> @@
    "&expr" :> <<38, 101, 120, 112, 114>> @@
    "&+" :> <<38, 43>> @@
    "&-" :> <<38, 45>> @@
    "&*" :> <<38, 42>> @@
    "&/" :> <<38, 47>> @@
    "&if" :> <<38, 105, 102>> @@
    "_NUM" :> <<95, 78, 85, 77>> @@
    "_EOF" :> <<95, 69, 79, 70>> @@
    "_ID" :> <<95, 73, 68>> @@
    "_STR" :> <<95, 83, 84, 82>> @@
    "_EOL" :> <<95, 69, 79, 76>> @@
    "expr" :> <<101, 120, 112, 114>> @@
    "+" :> <<43>> @@
    "-" :> <<45>> @@
    "*" :> <<42>> @@
    "/" :> <<47>> @@
    "if" :> <<105, 102>> @@
    "x" :> <<120>> @@
    "0" :> <<48>> @@
    "1" :> <<49>> @@
    "2" :> <<50>> @@
    "3" :> <<51>> @@
    "4" :> <<52>> @@
    "10" :> <<49, 48>> @@
    "" :> <<>>

\* s[0]
FirstByte(s) == Bytes[s][1]

\* len(c)
ByteLen(c) == Len(Bytes[c])

\* s[1:]
DropFirst(s) == CHOOSE r \in DOMAIN Bytes : Bytes[r] = Tail(Bytes[s])

\* The bytes of " ", "*", ";" and "->".
SP == <<32>>
STAR == <<42>>
SEMI == <<59>>
ARROW == <<45, 62>>

\* a < b on Go strings: bytewise lexicographic order.
RECURSIVE BytesLessFrom(_, _, _)
BytesLessFrom(a, b, i) ==
    IF i > Len(a) THEN i <= Len(b)
    ELSE IF i > Len(b) THEN FALSE
    ELSE IF a[i] # b[i] THEN a[i] < b[i]
    ELSE BytesLessFrom(a, b, i + 1)

StringLess(a, b) == BytesLessFrom(a, b, 1)

\* strings.Join
RECURSIVE Join(_, _)
Join(keys, sep) ==
    IF keys = <<>> THEN ""
    ELSE IF Len(keys) = 1 THEN keys[1]
    ELSE keys[1] \o sep \o Join(Tail(keys), sep)

(***************************************************************************)
(* Rules, items and states.                                                *)
(***************************************************************************)
Rule(lhs, rhs, conv) == [LHS |-> lhs, RHS |-> rhs, Conv |-> conv]

Item(lhs, rhs, dotPos) == [LHS |-> lhs, RHS |-> rhs, DotPos |-> dotPos]

State(items) == [Items |-> items]

\* The loop of Item.String over RHS, from index i on.
RECURSIVE ItemStringFrom(_, _)
ItemStringFrom(it, i) ==
    IF i = Len(it.RHS) THEN ""
    ELSE " " \o (IF it.DotPos = i THEN "*" ELSE "") \o it.RHS[i + 1]
             \o ItemStringFrom(it, i + 1)

\* Item.String
ItemString(it) ==
    it.LHS \o " ->" \o ItemStringFrom(it, 0)
           \o (IF it.DotPos = Len(it.RHS) THEN "*" ELSE "") \o ";"

\* The bytes of Item.String, for the comparison in State.String.
RECURSIVE ItemBytesFrom(_, _)
ItemBytesFrom(it, i) ==
    IF i = Len(it.RHS) THEN <<>>
    ELSE SP \o (IF it.DotPos = i THEN STAR ELSE <<>>) \o Bytes[it.RHS[i + 1]]
            \o ItemBytesFrom(it, i + 1)

ItemBytes(it) ==
    Bytes[it.LHS] \o SP \o ARROW \o ItemBytesFrom(it, 0)
                  \o (IF it.DotPos = Len(it.RHS) THEN STAR ELSE <<>>) \o SEMI

\* sort.Slice(st.Items, less) with less comparing the items' strings.  The
\* items of a state have pairwise different strings (they are the values of
\* closeItems' map, keyed by string), so the sorted slice does not depend on
\* the order the slice had before.
RECURSIVE SortItems(_, _)
SortItems(items, b) ==
    IF items = {} THEN <<>>
    ELSE LET least == CHOOSE x \in items :
                          \A y \in items \ {x} : StringLess(b[x], b[y])
         IN  <<least>> \o SortItems(items \ {least}, b)

\* State.String
StateString(st) ==
    LET sorted == SortItems(st.Items, [x \in st.Items |-> ItemBytes(x)])
        keys == [i \in 1..Len(sorted) |-> ItemString(sorted[i])]
    IN  Join(keys, " ")

tableKey(row, column) == [row |-> row, column |-> column]

shiftAction(s) == [type |-> "shift", state |-> s]
reduceAction(rule) == [type |-> "reduce", rule |-> rule]
acceptAction == [type |-> "accept"]
gotoAction(s) == [type |-> "goto", state |-> s]

\* An empty Go map, and the assignment m[k] = v.
EmptyMap == [k \in {} |-> k]
Put(m, k, v) == (k :> v) @@ m

\* The columns of the keys of a table.
Columns(table) == {key.column : key \in DOMAIN table}

(***************************************************************************)
(* Grammar.closeItems                                                      *)
(***************************************************************************)
\* The items the inner loop adds for the dequeued item `it`: one per rule
\* whose LHS is the symbol after the dot and whose string is not yet in m.
NewItems(rules, m, it) ==
    IF it.DotPos < Len(it.RHS)
    THEN LET symb == it.RHS[it.DotPos + 1]
         IN  {it2 \in {Item(rules[i].LHS, rules[i].RHS, 0) :
                           i \in {j \in 1..Len(rules) : rules[j].LHS = symb}} :
                  ItemString(it2) \notin {ItemString(x) : x \in m}}
    ELSE {}

\* The worklist loop: m is the map from item string to item (held as the
\* set of its values), items the queue.
RECURSIVE closeLoop(_, _, _)
closeLoop(rules, m, items) ==
    IF items = {} THEN m
    ELSE LET it == CHOOSE x \in items : TRUE
             new == NewItems(rules, m, it)
         IN  closeLoop(rules, m \cup new, (items \ {it}) \cup new)

\* The items of one round only: the rules of the symbols after the dots of
\* the given items, and not those of the items the round adds.
closeItemsOneRound(rules, items) ==
    items \cup UNION {NewItems(rules, items, it) : it \in items}

closeItems(rules, items) == closeLoop(rules, items, items)

(***************************************************************************)
(* The example grammar of cmd/example.                                     *)
(***************************************************************************)
ArithRules == <<
    Rule("Init", <<"Expr">>, "args0"),
    Rule("Expr", <<"&expr", "AddExpr">>, "args1"),
    Rule("AddExpr", <<"AddExpr", "&+", "MulExpr">>, "add"),
    Rule("AddExpr", <<"AddExpr", "&-", "MulExpr">>, "sub"),
    Rule("AddExpr", <<"MulExpr">>, "args0"),
    Rule("MulExpr", <<"MulExpr", "&*", "ConstExpr">>, "mul"),
    Rule("MulExpr", <<"MulExpr", "&/", "ConstExpr">>, "div"),
    Rule("MulExpr", <<"ConstExpr">>, "args0"),
    Rule("ConstExpr", <<"_NUM">>, "integer") >>

(***************************************************************************)
(* Further grammars.  Their folds return a node labelled with the LHS.     *)
(***************************************************************************)
Node(lhs, rhs) == Rule(lhs, rhs, "node")

\* An empty start rule.
EmptyStartRules == << Node("S", <<>>) >>

\* A start rule of two symbols.
LongStartRules == << Node("S", <<"_NUM", "_NUM">>) >>

\* The start symbol on a right-hand side.
RecursiveStartRules == <<
    Node("S", <<"A">>), Node("A", <<"_NUM">>), Node("A", <<"&+", "S">>) >>

\* A state with a shift on '+' and a completed item.
ShiftReduceRules == <<
    Node("S", <<"A">>), Node("A", <<"A", "&+", "A">>), Node("A", <<"_NUM">>) >>

\* _EOF as a symbol of a rule, after the dot in the accepting state.
EofShiftRules == <<
    Node("S", <<"A">>), Node("A", <<"A", "_EOF">>), Node("A", <<"_NUM">>) >>

\* Two completed items in one state.
ReduceReduceRules == <<
    Node("S", <<"A">>), Node("A", <<"_NUM">>), Node("A", <<"B">>),
    Node("B", <<"_NUM">>) >>

\* A completed item in the accepting state.
AcceptReduceRules == <<
    Node("S", <<"A">>), Node("A", <<"B">>), Node("B", <<"A">>),
    Node("A", <<"_NUM">>) >>

\* The same rule twice.
DuplicateRules == <<
    Node("S", <<"A">>), Node("A", <<"_NUM">>), Node("A", <<"_NUM">>) >>

\* An empty right-hand side.
EpsilonRules == <<
    Node("S", <<"B">>), Node("B", <<"A", "_NUM">>), Node("A", <<>>) >>

\* An empty right-hand side in front of a recursion.
EpsilonLoopRules == <<
    Node("S", <<"B">>), Node("B", <<"A", "B">>), Node("B", <<"_NUM">>),
    Node("A", <<>>) >>

\* Two unit rules that derive each other's LHS.
UnitCycleRules == <<
    Node("S", <<"B">>), Node("B", <<"A", "&+">>), Node("A", <<"C">>),
    Node("C", <<"A">>), Node("A", <<"_NUM">>) >>

\* The start symbol on a right-hand side, and a shift on _EOF out of the
\* state that holds the accepting item.
RecursiveEofRules == <<
    Node("S", <<"A">>), Node("A", <<"A", "_EOF">>), Node("A", <<"_NUM">>),
    Node("A", <<"&+", "S">>) >>

(***************************************************************************)
(* The rule expanders: BuildOperatorRules, BuildListRules and BuildOptSeq. *)
(***************************************************************************)
LeftAssociative == 0
RightAssociative == 1
NonAssociative == 2

Operator(assoc, prio, symbols) ==
    [Associativity |-> assoc, Priority |-> prio, Symbols |-> symbols]

\* Operator.Name: the symbols of the operator without their first byte, joined.
RECURSIVE NameFrom(_, _)
NameFrom(symbols, i) ==
    IF i > Len(symbols) THEN ""
    ELSE DropFirst(symbols[i]) \o NameFrom(symbols, i + 1)

Name(op) == NameFrom(op.Symbols, 1)

\* opMap[p]: the operators of priority p, in the order of the list.
opMap(ops, p) == SelectSeq(ops, LAMBDA op : op.Priority = p)

\* The keys of opMap.
Priorities(ops) == {ops[i].Priority : i \in 1..Len(ops)}

\* The orders in which `range opMap` can hand out the keys: Go fixes none.
MapOrders(keys) ==
    {o \in [1..Cardinality(keys) -> keys] :
        \A i, j \in 1..Cardinality(keys) : i # j => o[i] # o[j]}

\* func(i, j int) bool { return i < j }: the arguments are positions in the
\* slice, not the priorities at them.
Less(i, j) == i < j

Swap(a, i, j) == [a EXCEPT ![i] = a[j], ![j] = a[i]]

\* sort.Slice on a slice of fewer than 12 elements: an insertion sort that
\* swaps the elements at j and j-1 while less(j, j-1).
RECURSIVE InsertDown(_, _)
InsertDown(a, j) ==
    IF j > 1 /\ Less(j, j - 1) THEN InsertDown(Swap(a, j, j - 1), j - 1) ELSE a

RECURSIVE InsertionSortFrom(_, _)
InsertionSortFrom(a, i) ==
    IF i > Len(a) THEN a ELSE InsertionSortFrom(InsertDown(a, i), i + 1)

SortSlice(a) == InsertionSortFrom(a, 2)

\* fmt.Sprintf("%sOp%d", root, prio)
OpSymbol(root, prio) == root \o "Op" \o ToString(prio)

\* A rule whose fold is builder(op.Name(), r[0], r[len(r)-1]).
OperatorRule(lhs, rhs, name) ==
    [LHS |-> lhs, RHS |-> rhs, Conv |-> "builder", Name |-> name]

\* The RHS of an operator's rule with both operands at the operator's level.
OperatorSymbolsSameLevel(op, sym1, sym2) == <<sym1>> \o op.Symbols \o <<sym1>>

\* The RHS of an operator's rule: sym1 is the operator's level, sym2 the next.
OperatorSymbols(op, sym1, sym2) ==
    <<IF op.Associativity = LeftAssociative THEN sym1 ELSE sym2>>
    \o op.Symbols
    \o <<IF op.Associativity = RightAssociative THEN sym1 ELSE sym2>>

\* The rules of the operators of one level from the i-th on: for each, its
\* own rule and the rule sym1 -> sym2.
RECURSIVE LevelRules(_, _, _, _)
LevelRules(level, sym1, sym2, i) ==
    IF i > Len(level) THEN <<>>
    ELSE << OperatorRule(sym1, OperatorSymbols(level[i], sym1, sym2),
                         Name(level[i])),
            Rule(sym1, <<sym2>>, "args0") >>
         \o LevelRules(level, sym1, sym2, i + 1)

\* The rules of the levels from the i-th of prios on.
RECURSIVE CascadeRules(_, _, _, _, _)
CascadeRules(root, leaf, ops, prios, i) ==
    IF i > Len(prios) THEN <<>>
    ELSE LET sym1 == OpSymbol(root, prios[i])
             sym2 == IF i = Len(prios) THEN leaf
                     ELSE OpSymbol(root, prios[i + 1])
         IN  LevelRules(opMap(ops, prios[i]), sym1, sym2, 1)
             \o CascadeRules(root, leaf, ops, prios, i + 1)

\* BuildOperatorRules for a non-empty ops; `order` is the order in which the
\* keys of opMap came out of the map.
BuildOperatorRules(root, leaf, ops, order) ==
    LET prios == SortSlice(order)
    IN  <<Rule(root, <<OpSymbol(root, prios[1])>>, "args0")>>
        \o CascadeRules(root, leaf, ops, prios, 1)

\* A rule whose fold reads r[index].
IndexedRule(lhs, rhs, conv, index) ==
    [LHS |-> lhs, RHS |-> rhs, Conv |-> conv, Index |-> index]

\* BuildListRules
BuildListRules(root, leaf, canBeEmpty, leftBracket, sep, rightBracket) ==
    LET index == IF leftBracket # "" THEN 1 ELSE 0
        symbols == (IF leftBracket # "" THEN <<leftBracket>> ELSE <<>>)
                   \o <<root \o "Els">>
                   \o (IF rightBracket # "" THEN <<rightBracket>> ELSE <<>>)
    IN  <<IndexedRule(root, symbols, "list", index)>>
        \o (IF canBeEmpty
            THEN <<Rule(root, <<leftBracket, rightBracket>>, "emptyList")>>
            ELSE <<>>)
        \o <<Rule(root \o "Els", <<leaf>>, "element")>>
        \o (IF sep # ""
            THEN <<IndexedRule(root \o "Els", <<root \o "Els", sep, leaf>>,
                               "append", 2)>>
            ELSE <<IndexedRule(root \o "Els", <<root \o "Els", leaf>>,
                               "append", 1)>>)

\* BuildOptSeq
BuildOptSeq(root, head, tail) ==
    << Rule(root, head, "head"),
       IndexedRule(root, head \o tail, "headTail", Len(head)) >>

\* The calls of the expanders the model builds grammars from.
OperatorPool ==
    {Operator(a, 1, <<"&+">>) :
        a \in {LeftAssociative, RightAssociative, NonAssociative}}
    \cup {Operator(a, 2, <<"&*">>) : a \in {LeftAssociative, RightAssociative}}
    \cup {Operator(LeftAssociative, 1, <<"&-">>)}

OperatorLists ==
    {<<op>> : op \in OperatorPool}
    \cup {<<op1, op2>> : op1 \in OperatorPool, op2 \in OperatorPool}

OperatorCalls ==
    UNION {{[helper |-> "BuildOperatorRules", root |-> "Expr", leaf |-> "_NUM",
             ops |-> ops, order |-> order] :
                order \in MapOrders(Priorities(ops))} : ops \in OperatorLists}

\* Lists that can or cannot be empty, with and without a left bracket, a
\* separator and a right bracket.
ListCalls ==
    {[helper |-> "BuildListRules", root |-> "Args", leaf |-> "_NUM",
      canBeEmpty |-> e, leftBracket |-> l, sep |-> sep, rightBracket |-> r] :
        e \in BOOLEAN, l \in {"&(", ""}, sep \in {"&,", ""}, r \in {"&)", ""}}

OptSeqCalls ==
    {[helper |-> "BuildOptSeq", root |-> "Opt", head |-> h, tail |-> t] :
        h \in {<<"_NUM">>, <<"&expr", "_NUM">>},
        t \in {<<"&+", "_NUM">>, <<"&+">>}}

\* The rule list of a grammar that uses the call c of an expander: the
\* operator cascade as it is, its first rule being root -> rootOp{p0}; a list
\* or an optional sequence behind the start rule Init -> root.
HelperRules(c) ==
    CASE c.helper = "BuildOperatorRules" ->
            BuildOperatorRules(c.root, c.leaf, c.ops, c.order)
      [] c.helper = "BuildListRules" ->
            <<Rule("Init", <<c.root>>, "args0")>>
            \o BuildListRules(c.root, c.leaf, c.canBeEmpty, c.leftBracket,
                              c.sep, c.rightBracket)
      [] c.helper = "BuildOptSeq" ->
            <<Rule("Init", <<c.root>>, "args0")>>
            \o BuildOptSeq(c.root, c.head, c.tail)

\* A left-hand side with the prefix of a terminal.
TerminalLhsRules == <<
    Node("S", <<"_A">>), Node("_A", <<"_NUM">>) >>

\* A start rule that ends in _EOF.
EofStartRules == <<
    Node("S", <<"A", "_EOF">>), Node("A", <<"_NUM">>) >>

\* A word that is a literal terminal, in front of an identifier.
KeywordRules == <<
    Node("S", <<"A">>), Node("A", <<"&expr", "_ID">>) >>

Grammars ==
    { ArithRules, EmptyStartRules, LongStartRules, RecursiveStartRules,
      ShiftReduceRules, EofShiftRules, ReduceReduceRules, AcceptReduceRules,
      DuplicateRules, EpsilonRules, EpsilonLoopRules, UnitCycleRules,
      RecursiveEofRules, TerminalLhsRules, EofStartRules, KeywordRules }

(***************************************************************************)
(* Grammar.BuildItems                                                      *)
(***************************************************************************)
\* The value of `state` outside the body of the worklist loop, where the
\* variable is not in scope.
NoState == State({})

\* The initial state of the automaton: the closure of the start rule's item.
InitialState(rules) ==
    State(closeItems(rules, {Item(rules[1].LHS, rules[1].RHS, 0)}))

\* NewGrammar's Grammar, as BuildItems has it before the worklist loop.
NewGrammar(rules) ==
    [Rules |-> rules, states |-> EmptyMap,
     initialState |-> StateString(InitialState(rules)),
     actionTable |-> EmptyMap, gotoTable |-> EmptyMap]

\* NewGrammar up to the first test of the worklist loop.
BuildStart(rules) ==
        /\ gr = NewGrammar(rules)
        /\ states = <<InitialState(rules)>>
        /\ state = NoState
        /\ tr = {}
        /\ terminals = {}
        /\ pending = {}
        /\ pc = "worklist"

\* The symbols after a dot in the items of st.
Transitions(st) ==
    {it.RHS[it.DotPos + 1] : it \in {x \in st.Items : x.DotPos < Len(x.RHS)}}

\* One iteration of the worklist loop up to the range over tr.
Dequeue ==
    /\ pc = "worklist"
    /\ states # <<>>
    /\ LET st == states[1]
           key == StateString(st)
       IN  /\ states' = Tail(states)
           /\ IF key \notin DOMAIN gr.states
              THEN /\ gr' = [gr EXCEPT !.states = Put(@, key, st)]
                   /\ state' = IF Transitions(st) = {} THEN NoState ELSE st
                   /\ tr' = Transitions(st)
                   /\ pc' = IF Transitions(st) = {} THEN "worklist" ELSE "symbols"
              ELSE UNCHANGED <<gr, state, tr, pc>>
    /\ UNCHANGED <<terminals, pending, callVars, parseVars>>
    /\ UNCHANGED <<fold, helperVars, other>>

\* The items of st with symb after the dot, the dot moved over it.
Advance(st, symb) ==
    {Item(it.LHS, it.RHS, it.DotPos + 1) :
        it \in {x \in st.Items : x.DotPos < Len(x.RHS) /\ x.RHS[x.DotPos + 1] = symb}}

IsTerminal(symb) == FirstByte(symb) = 95 \/ FirstByte(symb) = 38

\* The transition recorded in GOTO whatever the symbol, and in ACTION too
\* for a terminal.
RecordTransitionInBoth(g, key, symb, key2) ==
    LET g1 == [g EXCEPT !.gotoTable = Put(@, tableKey(key, symb), gotoAction(key2))]
    IN  IF IsTerminal(symb)
        THEN [g1 EXCEPT !.actionTable = Put(@, tableKey(key, symb), shiftAction(key2))]
        ELSE g1

\* The tables after the transition from key on symb to key2 is recorded:
\* a shift in ACTION for a terminal, an entry of GOTO otherwise.
RecordTransition(g, key, symb, key2) ==
    IF IsTerminal(symb)
    THEN [g EXCEPT !.actionTable = Put(@, tableKey(key, symb), shiftAction(key2))]
    ELSE [g EXCEPT !.gotoTable = Put(@, tableKey(key, symb), gotoAction(key2))]

\* The accepting item: the start rule with the dot at its end.
AcceptingItem(rules) == Item(rules[1].LHS, rules[1].RHS, Len(rules[1].RHS))

\* Accept written for a successor that holds the accepting item, whether or
\* not the successor is already a key of gr.states.
WritesAcceptAgain(isNew, items, acceptingItem) ==
    \E it \in items : ItemString(it) = ItemString(acceptingItem)

\* Whether the iteration writes Accept for the successor: the successor is
\* not yet a key of gr.states and holds the accepting item.
WritesAccept(isNew, items, acceptingItem) ==
    isNew /\ \E it \in items : ItemString(it) = ItemString(acceptingItem)

\* One iteration of the range over tr: the loop visits the symbols in any
\* order.  symb[0] of the empty string is out of range, and NewGrammar
\* panics.
Expand ==
    /\ pc = "symbols"
    /\ \E symb \in tr :
        IF ByteLen(symb) = 0
        THEN /\ pc' = "panic"
             /\ ret' = [kind |-> "panic", msg |-> "index out of range"]
             /\ UNCHANGED <<gr, states, tr, state>>
        ELSE
        LET items == closeItems(gr.Rules, Advance(state, symb))
            state2 == State(items)
            key == StateString(state)
            key2 == StateString(state2)
            isNew == key2 \notin DOMAIN gr.states
            gr1 == RecordTransition(gr, key, symb, key2)
        IN  /\ gr' = IF WritesAccept(isNew, items, AcceptingItem(gr.Rules))
                     THEN [gr1 EXCEPT !.actionTable =
                                 Put(@, tableKey(key2, "_EOF"), acceptAction)]
                     ELSE gr1
            /\ states' = IF isNew THEN Append(states, state2) ELSE states
            /\ tr' = tr \ {symb}
            /\ state' = IF tr \ {symb} = {} THEN NoState ELSE state
            /\ pc' = IF tr \ {symb} = {} THEN "worklist" ELSE "symbols"
            /\ UNCHANGED ret
    /\ UNCHANGED <<terminals, pending, first, parseVars>>
    /\ UNCHANGED <<fold, helperVars, other>>

\* Whether the completed item of rule i is among the items of a state, given
\* the strings of the state's items.
HasCompleted(rules, itemStrings, i) ==
    LET rule == rules[i + 1]
        it == Item(rule.LHS, rule.RHS, Len(rule.RHS))
    IN  ItemString(it) \in itemStrings

\* The strings of the items of st.
ItemStrings(st) == {ItemString(it) : it \in st.Items}

\* The keys of the states that hold the completed item of some rule i > 0.
\* For every other state the body of the range over gr.states executes no
\* statement: the model leaves those iterations out of `pending`.
CompletingStates(g) ==
    {key \in DOMAIN g.states :
        \E i \in 1..(Len(g.Rules) - 1) :
            HasCompleted(g.Rules, ItemStrings(g.states[key]), i)}

\* The worklist is empty: collect the terminals, and the range over gr.states
\* begins.
EndWorklist ==
    /\ pc = "worklist"
    /\ states = <<>>
    /\ terminals' = Columns(gr.actionTable)
    /\ pending' = CompletingStates(gr)
    /\ pc' = IF CompletingStates(gr) = {} THEN "built" ELSE "reduce"
    /\ UNCHANGED <<gr, states, state, tr, callVars, parseVars>>
    /\ UNCHANGED <<fold, helperVars, other>>

\* The range over terminals with the reduce written over a shift.
RECURSIVE ReduceTerminalsOverShift(_, _, _, _)
ReduceTerminalsOverShift(table, key, i, terms) ==
    IF terms = {} THEN [panic |-> FALSE, table |-> table]
    ELSE LET terminal == CHOOSE t \in terms : TRUE
             k == tableKey(key, terminal)
         IN  IF k \in DOMAIN table /\ table[k].type # "shift"
             THEN [panic |-> TRUE, table |-> table]
             ELSE ReduceTerminalsOverShift(Put(table, k, reduceAction(i)), key, i,
                                           terms \ {terminal})

\* The range over terminals with every occupied cell left as it is.
RECURSIVE ReduceTerminalsIfEmpty(_, _, _, _)
ReduceTerminalsIfEmpty(table, key, i, terms) ==
    IF terms = {} THEN [panic |-> FALSE, table |-> table]
    ELSE LET terminal == CHOOSE t \in terms : TRUE
             k == tableKey(key, terminal)
         IN  IF k \in DOMAIN table
             THEN ReduceTerminalsIfEmpty(table, key, i, terms \ {terminal})
             ELSE ReduceTerminalsIfEmpty(Put(table, k, reduceAction(i)), key, i,
                                         terms \ {terminal})

\* The range over terminals with the rule before i in the reduce.
RECURSIVE ReduceTerminalsOfRuleBefore(_, _, _, _)
ReduceTerminalsOfRuleBefore(table, key, i, terms) ==
    IF terms = {} THEN [panic |-> FALSE, table |-> table]
    ELSE LET terminal == CHOOSE t \in terms : TRUE
             k == tableKey(key, terminal)
         IN  IF k \in DOMAIN table
             THEN IF table[k].type # "shift"
                  THEN [panic |-> TRUE, table |-> table]
                  ELSE ReduceTerminalsOfRuleBefore(table, key, i, terms \ {terminal})
             ELSE ReduceTerminalsOfRuleBefore(Put(table, k, reduceAction(i - 1)),
                                              key, i, terms \ {terminal})

\* The range over terminals for rule i, whose completed item is in the state
\* with key `key`.  The loop visits the terminals in any order; each iteration
\* reads and writes the cell of its own terminal only.
RECURSIVE ReduceTerminals(_, _, _, _)
ReduceTerminals(table, key, i, terms) ==
    IF terms = {} THEN [panic |-> FALSE, table |-> table]
    ELSE LET terminal == CHOOSE t \in terms : TRUE
             k == tableKey(key, terminal)
         IN  IF k \in DOMAIN table
             THEN IF table[k].type # "shift"
                  THEN [panic |-> TRUE, table |-> table]
                  ELSE ReduceTerminals(table, key, i, terms \ {terminal})
             ELSE ReduceTerminals(Put(table, k, reduceAction(i)), key, i,
                                  terms \ {terminal})

\* The range over gr.Rules for one state, from rule i on.
RECURSIVE ReduceRules(_, _, _, _, _, _)
ReduceRules(table, rules, itemStrings, key, i, terms) ==
    IF i >= Len(rules) THEN [panic |-> FALSE, table |-> table]
    ELSE IF i > 0 /\ HasCompleted(rules, itemStrings, i)
         THEN LET r == ReduceTerminals(table, key, i, terms)
              IN  IF r.panic THEN r
                  ELSE ReduceRules(r.table, rules, itemStrings, key, i + 1, terms)
         ELSE ReduceRules(table, rules, itemStrings, key, i + 1, terms)

\* One iteration of the range over gr.states that executes a statement: the
\* loop visits the states in any order.  A conflict panics, and NewGrammar
\* returns no Grammar.
PopulateReduce ==
    /\ pc = "reduce"
    /\ \E key \in pending :
        LET r == ReduceRules(gr.actionTable, gr.Rules, ItemStrings(gr.states[key]),
                             key, 0, terminals)
        IN  IF r.panic
            THEN /\ pc' = "panic"
                 /\ ret' = [kind |-> "panic", msg |-> "conflict"]
                 /\ UNCHANGED <<gr, pending>>
            ELSE /\ gr' = [gr EXCEPT !.actionTable = r.table]
                 /\ pending' = pending \ {key}
                 /\ pc' = IF pending \ {key} = {} THEN "built" ELSE "reduce"
                 /\ UNCHANGED ret
    /\ UNCHANGED <<states, state, tr, terminals, parseVars, first>>
    /\ UNCHANGED <<fold, helperVars, other>>

(***************************************************************************)
(* Tokens and semantic values.  A token is a textkit.Token: its Type, its  *)
(* Form (the lexeme) and its Loc, here the token's position in the input.  *)
(* A value on the result stack is a token, or what a fold returned: an     *)
(* int, or a node labelled with the rule's LHS.                            *)
(***************************************************************************)
Token(type, form, loc) == [Type |-> type, Form |-> form, Loc |-> loc]

IntValue(n) == [int |-> n]
NodeValue(lhs) == [node |-> lhs]
IsInt(v) == DOMAIN v = {"int"}
IsToken(v) == "Type" \in DOMAIN v

\* A panic inside a fold.
FoldPanic(msg) == [panic |-> msg]
IsPanic(v) == DOMAIN v = {"panic"}

\* strconv.Atoi on a string of decimal digits, given by its bytes.
RECURSIVE AtoiFrom(_, _, _)
AtoiFrom(b, i, acc) ==
    IF i > Len(b) THEN acc ELSE AtoiFrom(b, i + 1, 10 * acc + (b[i] - 48))

Atoi(form) == AtoiFrom(Bytes[form], 1, 0)

\* The rule front-end hands a fold the int value of a number token matched
\* by `integer`.
IntegerArg(v) ==
    IF IsToken(v) /\ v.Type = "Number" THEN IntValue(Atoi(v.Form))
    ELSE FoldPanic("not a number token")

\* Go's a / b on ints: the quotient truncated toward zero.
GoQuo(a, b) ==
    LET abs(x) == IF x < 0 THEN -x ELSE x
        q == abs(a) \div abs(b)
    IN  IF (a < 0) # (b < 0) THEN -q ELSE q

\* args[0].(int) <op> args[2].(int)
Binary(op, r) ==
    IF Len(r) < 3 THEN FoldPanic("index out of range")
    ELSE IF ~(IsInt(r[1]) /\ IsInt(r[3])) THEN FoldPanic("interface conversion")
    ELSE CASE op = "add" -> IntValue(r[1].int + r[3].int)
           [] op = "sub" -> IntValue(r[1].int - r[3].int)
           [] op = "mul" -> IntValue(r[1].int * r[3].int)
           [] op = "div" -> IF r[3].int = 0
                            THEN FoldPanic("integer divide by zero")
                            ELSE IntValue(GoQuo(r[1].int, r[3].int))

\* What the builders handed to the expanders return: a value that records
\* the arguments of the call.
OperatorBuilder(name, left, right) == [op |-> name, left |-> left, right |-> right]
ListBuilder(list) == [built |-> list]
OptSeqBuilder(head, tail, tailIsNil) ==
    [head |-> head, tail |-> tail, tailIsNil |-> tailIsNil]

\* A []interface{} on the result stack.
ListValue(list) == [list |-> list]
IsList(v) == DOMAIN v = {"list"}

\* A list with x in front of its elements.
PrependElement(list, x) == <<x>> \o list

\* append(r[0].([]interface{}), x)
AppendElement(list, x) == Append(list, x)

\* The arguments of the head with the first of the tail.
HeadValuesLong(r, n) == SubSeq(r, 1, n + 1)

\* r[:len(head)]
HeadValues(r, n) == SubSeq(r, 1, n)

\* r[len(head):]
TailValues(r, n) == SubSeq(r, n + 1, Len(r))

\* rule.Conv(results), for the folds of the model's grammars.
Conv(rule, r) ==
    CASE rule.Conv = "args0" ->
            IF Len(r) < 1 THEN FoldPanic("index out of range") ELSE r[1]
      [] rule.Conv = "args1" ->
            IF Len(r) < 2 THEN FoldPanic("index out of range") ELSE r[2]
      [] rule.Conv \in {"add", "sub", "mul", "div"} -> Binary(rule.Conv, r)
      [] rule.Conv = "integer" ->
            IF Len(r) < 1 THEN FoldPanic("index out of range") ELSE IntegerArg(r[1])
      [] rule.Conv = "node" -> NodeValue(rule.LHS)
      [] rule.Conv = "builder" ->
            IF Len(r) < 1 THEN FoldPanic("index out of range")
            ELSE OperatorBuilder(rule.Name, r[1], r[Len(r)])
      [] rule.Conv = "list" ->
            IF Len(r) < rule.Index + 1 THEN FoldPanic("index out of range")
            ELSE IF ~IsList(r[rule.Index + 1]) THEN FoldPanic("interface conversion")
            ELSE ListBuilder(r[rule.Index + 1].list)
      [] rule.Conv = "emptyList" -> ListBuilder(<<>>)
      [] rule.Conv = "element" ->
            IF Len(r) < 1 THEN FoldPanic("index out of range")
            ELSE ListValue(<<r[1]>>)
      [] rule.Conv = "append" ->
            IF Len(r) < rule.Index + 1 THEN FoldPanic("index out of range")
            ELSE IF ~IsList(r[1]) THEN FoldPanic("interface conversion")
            ELSE ListValue(AppendElement(r[1].list, r[rule.Index + 1]))
      [] rule.Conv = "head" -> OptSeqBuilder(r, <<>>, TRUE)
      [] rule.Conv = "headTail" ->
            IF Len(r) < rule.Index THEN FoldPanic("slice bounds out of range")
            ELSE OptSeqBuilder(HeadValues(r, rule.Index),
                               TailValues(r, rule.Index), FALSE)

(***************************************************************************)
(* Token lists.                                                            *)
(***************************************************************************)
\* The decimal form of n, as the tokeniser leaves it in a number token.
NumForm(n) ==
    CHOOSE f \in DOMAIN Bytes :
        /\ Len(Bytes[f]) > 0
        /\ \A i \in 1..Len(Bytes[f]) : Bytes[f][i] \in 48..57
        /\ (Len(Bytes[f]) > 1 => Bytes[f][1] # 48)
        /\ Atoi(f) = n

Word(w) == <<"Word", w>>
Symbol(c) == <<"Symbol", c>>
Number(n) == <<"Number", NumForm(n)>>
EOF == <<"EOF", "">>

\* The tokens of a list of <<type, form>> pairs, each located at its position.
Located(seq) == [i \in 1..Len(seq) |-> Token(seq[i][1], seq[i][2], i)]

Numbers == {Number(n) : n \in 0..MaxNum}
Operators == {Symbol("+"), Symbol("-"), Symbol("*"), Symbol("/")}

\* op1 n2 ... opk n(k+1) for k <= n
RECURSIVE OperatorTails(_)
OperatorTails(n) ==
    IF n = 0 THEN {<<>>}
    ELSE LET shorter == OperatorTails(n - 1)
         IN  shorter \cup {t \o <<op, num>> : t \in shorter, op \in Operators,
                                               num \in Numbers}

\* expr n1 op1 n2 ... opk n(k+1) EOF
ExprInputs ==
    {Located(<<Word("expr"), n>> \o t \o <<EOF>>) :
        n \in Numbers, t \in OperatorTails(MaxOps)}

\* The inputs of the specification's scenarios: expr 2+3*4, expr 10-4-3,
\* expr 1+2*3+4, expr + and expr 2 2.
Example(n) ==
    CASE n = 1 -> Located(<<Word("expr"), Number(2), Symbol("+"), Number(3),
                            Symbol("*"), Number(4), EOF>>)
      [] n = 2 -> Located(<<Word("expr"), Number(10), Symbol("-"), Number(4),
                            Symbol("-"), Number(3), EOF>>)
      [] n = 3 -> Located(<<Word("expr"), Number(1), Symbol("+"), Number(2),
                            Symbol("*"), Number(3), Symbol("+"), Number(4), EOF>>)
      [] n = 4 -> Located(<<Word("expr"), Symbol("+"), EOF>>)
      [] n = 5 -> Located(<<Word("expr"), Number(2), Number(2), EOF>>)

ExampleInputs == {Example(n) : n \in 1..5}

TokenPool == {Word("expr"), Word("x"), Number(1), Symbol("+"), Symbol("*")}

RECURSIVE Lists(_)
Lists(n) ==
    IF n = 0 THEN {<<>>}
    ELSE LET shorter == Lists(n - 1)
         IN  shorter \cup {Append(l, t) : l \in shorter, t \in TokenPool}

\* Every list of at most MaxTokens tokens of the pool, then EOF.
ShortInputs == {Located(l \o <<EOF>>) : l \in Lists(MaxTokens)}

\* n1 op1 n2 ... opk n(k+1) EOF for k <= MaxOps, every number a 1.
RECURSIVE OperandTails(_)
OperandTails(n) ==
    IF n = 0 THEN {<<>>}
    ELSE LET shorter == OperandTails(n - 1)
         IN  shorter \cup {t \o <<op, Number(1)>> :
                              t \in shorter,
                              op \in {Symbol("+"), Symbol("*"), Symbol("-")}}

OperandInputs ==
    {Located(<<Number(1)>> \o t \o <<EOF>>) : t \in OperandTails(MaxOps)}

\* Every list of at most n tokens of the pool.
RECURSIVE ListsOf(_, _)
ListsOf(pool, n) ==
    IF n = 0 THEN {<<>>}
    ELSE LET shorter == ListsOf(pool, n - 1)
         IN  shorter \cup {Append(l, t) : l \in shorter, t \in pool}

\* 1 , 1 , ... , 1 with k numbers
RECURSIVE Separated(_)
Separated(k) ==
    IF k = 0 THEN <<>>
    ELSE IF k = 1 THEN <<Number(1)>>
    ELSE Separated(k - 1) \o <<Symbol(","), Number(1)>>

\* ( 1 , ... , 1 ) with up to MaxElems numbers, the same with a separator
\* before the right bracket, and every short list of brackets, separators
\* and numbers.
BracketInputs ==
    {Located(<<Symbol("(")>> \o Separated(k) \o <<Symbol(")"), EOF>>) :
        k \in 0..MaxElems}
    \cup {Located(<<Symbol("(")>> \o Separated(k)
                  \o <<Symbol(","), Symbol(")"), EOF>>) : k \in 1..MaxElems}
    \cup {Located(l \o <<EOF>>) :
            l \in ListsOf({Symbol("("), Symbol(")"), Symbol(","), Number(1)},
                          MaxTokens)}

\* Every short list of the keyword, a number and the plus sign.
OptSeqInputs ==
    {Located(l \o <<EOF>>) :
        l \in ListsOf({Word("expr"), Number(1), Symbol("+")}, MaxTokens)}

\* The token lists Parse is called with: the short lists for every grammar
\* of the catalogue, the arithmetic expressions for the arithmetic grammar,
\* and for the grammar of an expander the lists of its tokens.
Inputs(rules) ==
    CASE config.helper = "BuildOperatorRules" -> OperandInputs
      [] config.helper = "BuildListRules" -> BracketInputs
      [] config.helper = "BuildOptSeq" -> OptSeqInputs
      [] OTHER ->
            ShortInputs
            \cup (IF rules = ArithRules THEN ExprInputs \cup ExampleInputs ELSE {})

(***************************************************************************)
(* Grammar.Parse                                                           *)
(***************************************************************************)
\* The terminal symbol of a token, a word being an identifier whatever the
\* keywords are.
SymbolOfWordAsIdentifier(token, kw) ==
    CASE token.Type = "Symbol" -> "&" \o token.Form
      [] token.Type = "Number" -> "_NUM"
      [] token.Type = "String" -> "_STR"
      [] token.Type = "EOF" -> "_EOF"
      [] token.Type = "EOL" -> "_EOL"
      [] token.Type = "Word" -> "_ID"
      [] OTHER -> ""

\* The terminal symbol of a token.
SymbolOf(token, kw) ==
    CASE token.Type = "Symbol" -> "&" \o token.Form
      [] token.Type = "Number" -> "_NUM"
      [] token.Type = "String" -> "_STR"
      [] token.Type = "EOF" -> "_EOF"
      [] token.Type = "EOL" -> "_EOL"
      [] token.Type = "Word" ->
            IF token.Form \in kw THEN "&" \o token.Form ELSE "_ID"
      [] OTHER -> ""

\* m[k] of a table: the nil action when k is not a key.
nil == [type |-> "nil"]
Lookup(table, k) == IF k \in DOMAIN table THEN table[k] ELSE nil

\* No second call of Parse has been made.
NoCall == [pc |-> "none"]

\* No fold has been called.
NoFold == [kind |-> "none", earlier |-> {}]

\* What the folds called before the next one returned, each with the LHS of
\* its rule.
Returned(rules, f) ==
    IF f.kind = "call"
    THEN f.earlier \cup {<<rules[f.rule + 1].LHS, f.value>>}
    ELSE f.earlier

\* r := rule.Conv(results), as the call of rule `rule` with the arguments
\* `results` that returned `r` after the calls of `earlier`.
FoldCall(rule, results, r, earlier) ==
    [kind |-> "call", rule |-> rule, args |-> results, value |-> r,
     earlier |-> earlier]

\* Parse up to the first iteration of its loop.
StartParse ==
    /\ pc = "built"
    /\ \E toks \in Inputs(gr.Rules) :
        /\ tokens' = toks
        /\ input' = toks
    /\ terminals' = Columns(gr.actionTable)
    /\ keywords' = {DropFirst(c) : c \in {k \in Columns(gr.actionTable) : FirstByte(k) = 38}}
    /\ stateStack' = <<gr.initialState>>
    /\ resultStack' = <<>>
    /\ fold' = NoFold
    /\ pc' = "parse"
    /\ UNCHANGED <<gr, states, state, tr, pending, callVars>>
    /\ UNCHANGED <<helperVars, other>>

\* The locals of one iteration of the loop.
token == tokens[1]
symb == SymbolOf(token, keywords)
currentState == stateStack[Len(stateStack)]
action == Lookup(gr.actionTable, tableKey(currentState, symb))

\* tokens[0] of an empty list.
OutOfTokens ==
    /\ pc = "parse"
    /\ tokens = <<>>
    /\ pc' = "panic"
    /\ ret' = [kind |-> "panic", msg |-> "index out of range"]
    /\ UNCHANGED <<buildVars, terminals, parseVars, first>>
    /\ UNCHANGED <<fold, helperVars, other>>

\* The state put in the place of the top of the stack.
ReplaceTop(stack, s) == [stack EXCEPT ![Len(stack)] = s]

\* append(stateStack, s)
PushState(stack, s) == Append(stack, s)

Shift ==
    /\ pc = "parse"
    /\ tokens # <<>>
    /\ action.type = "shift"
    /\ Len(stateStack) < MaxStack
    /\ resultStack' = Append(resultStack, token)
    /\ stateStack' = PushState(stateStack, action.state)
    /\ tokens' = Tail(tokens)
    /\ UNCHANGED <<buildVars, pc, terminals, keywords, input, callVars>>
    /\ UNCHANGED <<fold, helperVars, other>>

\* The arguments of the fold taken from the bottom of the stack.
TopResultsFromBottom(stack, n) == SubSeq(stack, 1, n)

\* The arguments of the fold taken one short of the rule's RHS.
TopResultsShort(stack, n) == SubSeq(stack, Len(stack) - n + 2, Len(stack))

\* resultStack[len(resultStack)-n:], the arguments of the fold
TopResults(stack, n) == SubSeq(stack, Len(stack) - n + 1, Len(stack))

\* The result stack cut one short of the rule's RHS.
PopResultsShort(stack, n) == SubSeq(stack, 1, Len(stack) - n + (IF n > 0 THEN 1 ELSE 0))

\* resultStack[:len(resultStack)-n:len(resultStack)-n]
PopResults(stack, n) == SubSeq(stack, 1, Len(stack) - n)

\* The state stack cut one short of the rule's RHS.
PopStatesShort(stack, n) == SubSeq(stack, 1, Len(stack) - n + (IF n > 0 THEN 1 ELSE 0))

\* stateStack[:len(stateStack)-n]
PopStates(stack, n) == SubSeq(stack, 1, Len(stack) - n)

\* The fold's results are ints, tokens, nodes, lists and what the builders
\* of the expanders return, none of them Located: the location enrichment of
\* lines 250-271 does nothing to them.
Reduce ==
    /\ pc = "parse"
    /\ tokens # <<>>
    /\ action.type = "reduce"
    /\ Len(stateStack) < MaxStack
    /\ LET rule == gr.Rules[action.rule + 1]
           n == Len(rule.RHS)
       IN  IF n > Len(resultStack) \/ n > Len(stateStack)
           THEN /\ pc' = "panic"
                /\ ret' = [kind |-> "panic", msg |-> "slice bounds out of range"]
                /\ UNCHANGED <<stateStack, resultStack, fold>>
           ELSE LET results == TopResults(resultStack, n)
                    resultStack1 == PopResults(resultStack, n)
                    stateStack1 == PopStates(stateStack, n)
                    r == Conv(rule, results)
                IN  /\ fold' = FoldCall(action.rule, results, r,
                                         Returned(gr.Rules, fold))
                    /\ IF IsPanic(r)
                       THEN /\ pc' = "panic"
                            /\ ret' = [kind |-> "panic", msg |-> r.panic]
                            /\ resultStack' = resultStack1
                            /\ stateStack' = stateStack1
                       ELSE /\ resultStack' = Append(resultStack1, r)
                            /\ IF stateStack1 = <<>>
                               THEN /\ pc' = "panic"
                                    /\ ret' = [kind |-> "panic", msg |-> "index out of range"]
                                    /\ stateStack' = stateStack1
                               ELSE LET k == tableKey(stateStack1[Len(stateStack1)], rule.LHS)
                                    IN  IF k \in DOMAIN gr.gotoTable
                                        THEN /\ stateStack' =
                                                   PushState(stateStack1, gr.gotoTable[k].state)
                                             /\ UNCHANGED <<pc, ret>>
                                        ELSE /\ pc' = "panic"
                                             /\ ret' = [kind |-> "panic", msg |-> "can't reduce"]
                                             /\ stateStack' = stateStack1
    /\ UNCHANGED <<buildVars, terminals, keywords, tokens, input, first>>
    /\ UNCHANGED <<helperVars, other>>

\* The value on top of the result stack.
ValueOnTop(results) == results[Len(results)]

\* resultStack[0], the value Accept returns.
AcceptedValue(results) == results[1]

Accept ==
    /\ pc = "parse"
    /\ tokens # <<>>
    /\ action.type = "accept"
    /\ IF resultStack = <<>>
       THEN /\ pc' = "panic"
            /\ ret' = [kind |-> "panic", msg |-> "index out of range"]
       ELSE /\ pc' = "returned"
            /\ ret' = [kind |-> "value", value |-> AcceptedValue(resultStack)]
    /\ UNCHANGED <<buildVars, terminals, parseVars, first>>
    /\ UNCHANGED <<fold, helperVars, other>>

\* The terminals named without the case for _EOF.
RenderedWithoutEOF(terminal) ==
    CASE terminal = "_EOL" -> "EOL"
      [] terminal = "_NUM" -> "number"
      [] terminal = "_STR" -> "string"
      [] terminal = "_ID" -> "identifier"
      [] FirstByte(terminal) = 38 -> "'" \o DropFirst(terminal) \o "'"
      [] OTHER -> terminal

\* How the error message names a terminal.
Rendered(terminal) ==
    CASE terminal = "_EOL" -> "EOL"
      [] terminal = "_EOF" -> "EOF"
      [] terminal = "_NUM" -> "number"
      [] terminal = "_STR" -> "string"
      [] terminal = "_ID" -> "identifier"
      [] FirstByte(terminal) = 38 -> "'" \o DropFirst(terminal) \o "'"
      [] OTHER -> terminal

\* Every seen terminal appended, whether or not the state has an entry for it.
ExpectedAllColumns(table, st, terms) == terms

\* The terminals the range over `terminals` appends to `expected`.
ExpectedColumns(table, st, terms) ==
    {terminal \in terms : tableKey(st, terminal) \in DOMAIN table}

\* The location of an error whose text names none.
NoLoc == 0

\* The default case.  The slice `expected` is filled in the order the range
\* over `terminals` takes: the model keeps its elements and its length.
Error ==
    /\ pc = "parse"
    /\ tokens # <<>>
    /\ action.type = "nil"
    /\ LET cols == ExpectedColumns(gr.actionTable, currentState, terminals)
           expected == {Rendered(terminal) : terminal \in cols}
           len == Cardinality(cols)
       IN  ret' = [kind |-> "error",
                   msg |-> IF len > 1 THEN "expected one of"
                           ELSE IF len > 0 THEN "expected"
                           ELSE "no expected symbol",
                   expected |-> expected,
                   loc |-> IF len > 0 THEN token.Loc ELSE NoLoc]
    /\ pc' = "returned"
    /\ UNCHANGED <<buildVars, terminals, parseVars, first>>
    /\ UNCHANGED <<fold, helperVars, other>>

Init ==
    /\ \/ /\ config = [helper |-> "none"]
          /\ \E rules \in Grammars : BuildStart(rules)
       \/ /\ config \in OperatorCalls \cup ListCalls \cup OptSeqCalls
          /\ BuildStart(HelperRules(config))
    /\ keywords = {}
    /\ tokens = <<>>
    /\ input = <<>>
    /\ stateStack = <<>>
    /\ resultStack = <<>>
    /\ ret = [kind |-> "none"]
    /\ first = [kind |-> "none"]
    /\ fold = NoFold
    /\ other = NoCall
    /\ clusters = <<>>
    /\ scanPos = 0
    /\ tokens2 = <<>>

Next ==
    \/ Dequeue
    \/ Expand
    \/ EndWorklist
    \/ PopulateReduce
    \/ StartParse
    \/ OutOfTokens
    \/ Shift
    \/ Reduce
    \/ Accept
    \/ Error

Spec == Init /\ [][Next]_vars

\* The grammars whose parses stay within MaxStack: Parse of EpsilonLoopRules
\* grows its stacks without end.
LiveGrammars == Grammars \ {EpsilonLoopRules}

LiveInit == Init /\ gr.Rules \in LiveGrammars

\* An iteration of the Parse loop.
ParseStep ==
    \/ OutOfTokens
    \/ Shift
    \/ Reduce
    \/ Accept
    \/ Error

\* Parse runs on one goroutine that neither blocks nor yields: once called,
\* it takes its next step whenever it has one.
SpecLive == LiveInit /\ [][Next]_vars /\ WF_vars(ParseStep)

\* What a NewGrammar call has produced: the tables and the initial state of
\* its Grammar, or a panic.
Outcome ==
    IF pc = "panic" THEN [kind |-> "panic"]
    ELSE [kind |-> "built", actionTable |-> gr.actionTable,
          gotoTable |-> gr.gotoTable, initialState |-> gr.initialState]

\* NewGrammar is called a second time with the same rules.
Rebuild ==
    /\ pc \in {"built", "panic"}
    /\ stateStack = <<>>
    /\ first.kind = "none"
    /\ first' = Outcome
    /\ gr' = NewGrammar(gr.Rules)
    /\ states' = <<InitialState(gr.Rules)>>
    /\ state' = NoState
    /\ tr' = {}
    /\ terminals' = {}
    /\ pending' = {}
    /\ pc' = "worklist"
    /\ ret' = [kind |-> "none"]
    /\ UNCHANGED parseVars
    /\ UNCHANGED <<fold, helperVars, other>>

NextDet ==
    \/ Dequeue
    \/ Expand
    \/ EndWorklist
    \/ PopulateReduce
    \/ Rebuild

\* NewGrammar called twice with one rule list.
SpecDet == Init /\ [][NextDet]_vars

(***************************************************************************)
(* CoalesceSymbols                                                         *)
(***************************************************************************)
\* c[j:j+1]
CharAt(c, j) == CHOOSE ch \in DOMAIN Bytes : Bytes[ch] = <<Bytes[c][j + 1]>>

\* The clusters with the first character key, last of the list first.
ClustersOfReversed(cl, key) ==
    LET cs == SelectSeq(cl, LAMBDA c : CharAt(c, 0) = key)
    IN  [k \in 1..Len(cs) |-> cs[Len(cs) + 1 - k]]

\* m[key]: the clusters with the first character key, in the order of the
\* list; empty when the map has no such key.
ClustersOf(cl, key) == SelectSeq(cl, LAMBDA c : CharAt(c, 0) = key)

\* The loop over j from j on: TRUE when it comes to fuse the cluster c at the
\* position i, FALSE when it breaks or runs out.
RECURSIVE Matches(_, _, _, _)
Matches(toks, i, c, j) ==
    IF j >= ByteLen(c) THEN FALSE
    ELSE LET t2 == toks[i + j + 1]
         IN  IF (t2.Type # "Symbol" /\ t2.Type # "Word") \/ t2.Form # CharAt(c, j)
             THEN FALSE
             ELSE IF j + 1 = ByteLen(c) THEN TRUE
             ELSE Matches(toks, i, c, j + 1)

\* The body of the loop over the clusters for c: c is fused at i.
Fuses(toks, i, c) == ByteLen(c) <= Len(toks) - i /\ Matches(toks, i, c, 1)

\* The loop over cs from k on: the index of the cluster it fuses, 0 when it
\* fuses none.
RECURSIVE FirstFused(_, _, _, _)
FirstFused(toks, i, cs, k) ==
    IF k > Len(cs) THEN 0
    ELSE IF Fuses(toks, i, cs[k]) THEN k
    ELSE FirstFused(toks, i, cs, k + 1)

\* The clusters tried for the token at scanPos.
Tried ==
    LET t == tokens[scanPos + 1]
    IN  IF t.Type = "Symbol" THEN ClustersOf(clusters, t.Form) ELSE <<>>

\* The position after the token at i alone.
NextPositionAfterFirst(i, c) == i + 1

\* i += len(c) - 1, and the i++ of the loop
NextPosition(i, c) == i + (ByteLen(c) - 1) + 1

\* The token made of a cluster, without the location of its first token.
FusedTokenUnlocated(c, t) == Token("Symbol", c, NoLoc)

\* &textkit.Token{Type: textkit.Symbol, Form: []rune(c), Loc: t.Loc, Tag: ""}
FusedToken(c, t) == Token("Symbol", c, t.Loc)

coalesceFrame ==
    <<gr, states, state, tr, terminals, pending, keywords, tokens, input,
      stateStack, resultStack, first, fold, config, clusters, other>>

\* An iteration that fuses a cluster.
Fuse ==
    /\ pc = "coalesce"
    /\ scanPos < Len(tokens)
    /\ LET k == FirstFused(tokens, scanPos, Tried, 1)
       IN  /\ k > 0
           /\ tokens2' = Append(tokens2, FusedToken(Tried[k], tokens[scanPos + 1]))
           /\ scanPos' = NextPosition(scanPos, Tried[k])
    /\ UNCHANGED <<pc, ret>>
    /\ UNCHANGED coalesceFrame

\* An iteration that fuses none: the token goes to tokens2 as it is.
Keep ==
    /\ pc = "coalesce"
    /\ scanPos < Len(tokens)
    /\ FirstFused(tokens, scanPos, Tried, 1) = 0
    /\ tokens2' = Append(tokens2, tokens[scanPos + 1])
    /\ scanPos' = scanPos + 1
    /\ UNCHANGED <<pc, ret>>
    /\ UNCHANGED coalesceFrame

\* return tokens2
ReturnTokens2 ==
    /\ pc = "coalesce"
    /\ scanPos >= Len(tokens)
    /\ pc' = "coalesced"
    /\ ret' = [kind |-> "tokens", value |-> tokens2]
    /\ UNCHANGED <<scanPos, tokens2>>
    /\ UNCHANGED coalesceFrame

\* The clusters the lists are made of.
ClusterPool == {">>", ">>=", ">=", ">x"}

RECURSIVE ClusterLists(_)
ClusterLists(n) ==
    IF n = 0 THEN {<<>>}
    ELSE LET shorter == ClusterLists(n - 1)
         IN  shorter \cup {Append(l, c) : l \in shorter, c \in ClusterPool}

\* Every list of at most MaxTokens + 1 tokens out of two symbols, a word and
\* a number.
CoalesceInputs ==
    {Located(l) :
        l \in ListsOf({Symbol(">"), Symbol("="), Word("x"), Number(1)},
                      MaxTokens + 1)}

\* CoalesceSymbols(tokens, clusters) up to the first test of its loop.
InitCoalesce ==
    /\ tokens \in CoalesceInputs
    /\ clusters \in ClusterLists(MaxClusters)
    /\ scanPos = 0
    /\ tokens2 = <<>>
    /\ pc = "coalesce"
    /\ config = [helper |-> "CoalesceSymbols"]
    /\ gr = [Rules |-> <<>>, states |-> EmptyMap, initialState |-> "",
             actionTable |-> EmptyMap, gotoTable |-> EmptyMap]
    /\ states = <<>>
    /\ state = NoState
    /\ tr = {}
    /\ terminals = {}
    /\ pending = {}
    /\ keywords = {}
    /\ input = <<>>
    /\ stateStack = <<>>
    /\ resultStack = <<>>
    /\ ret = [kind |-> "none"]
    /\ first = [kind |-> "none"]
    /\ fold = NoFold
    /\ other = NoCall

NextCoalesce ==
    \/ Fuse
    \/ Keep
    \/ ReturnTokens2

SpecCoalesce == InitCoalesce /\ [][NextCoalesce]_vars

(***************************************************************************)
(* Two Parse calls on one Grammar, each on its own goroutine.  The first   *)
(* is the call of the actions above; the locals of the second are the      *)
(* fields of `other`.                                                      *)
(***************************************************************************)
\* The stacks of the call that is under way, taken for those of a new call.
StacksOfFirstCall(g) == [stateStack |-> stateStack, resultStack |-> resultStack]

\* stateStack := []string{gr.initialState}; resultStack := []interface{}{}
NewStacks(g) == [stateStack |-> <<g.initialState>>, resultStack |-> <<>>]

\* The keywords of a call: the columns of ACTION with '&' in front, without it.
KeywordsOf(g) ==
    {DropFirst(c) : c \in {k \in Columns(g.actionTable) : FirstByte(k) = 38}}

\* What ends a call with a panic.
PanicOf(l, msg) ==
    [l EXCEPT !.pc = "panic", !.ret = [kind |-> "panic", msg |-> msg]]

\* The case *reduceAction of an iteration.
ReduceOf(g, l, act) ==
    LET rule == g.Rules[act.rule + 1]
        n == Len(rule.RHS)
    IN  IF n > Len(l.resultStack) \/ n > Len(l.stateStack)
        THEN PanicOf(l, "slice bounds out of range")
        ELSE LET results == TopResults(l.resultStack, n)
                 resultStack1 == PopResults(l.resultStack, n)
                 stateStack1 == PopStates(l.stateStack, n)
                 r == Conv(rule, results)
             IN  IF IsPanic(r)
                 THEN [PanicOf(l, r.panic) EXCEPT !.resultStack = resultStack1,
                                                  !.stateStack = stateStack1]
                 ELSE IF stateStack1 = <<>>
                 THEN [PanicOf(l, "index out of range")
                          EXCEPT !.resultStack = Append(resultStack1, r),
                                 !.stateStack = stateStack1]
                 ELSE LET k == tableKey(stateStack1[Len(stateStack1)], rule.LHS)
                      IN  IF k \in DOMAIN g.gotoTable
                          THEN [l EXCEPT !.resultStack = Append(resultStack1, r),
                                         !.stateStack =
                                            PushState(stateStack1, g.gotoTable[k].state)]
                          ELSE [PanicOf(l, "can't reduce")
                                   EXCEPT !.resultStack = Append(resultStack1, r),
                                          !.stateStack = stateStack1]

\* The default case of an iteration: the error with the expected terminals.
ErrorOf(g, l) ==
    LET cols == ExpectedColumns(g.actionTable, l.stateStack[Len(l.stateStack)],
                                Columns(g.actionTable))
        len == Cardinality(cols)
    IN  [l EXCEPT !.pc = "returned",
                  !.ret = [kind |-> "error",
                           msg |-> IF len > 1 THEN "expected one of"
                                   ELSE IF len > 0 THEN "expected"
                                   ELSE "no expected symbol",
                           expected |-> {Rendered(terminal) : terminal \in cols},
                           loc |-> IF len > 0 THEN l.tokens[1].Loc ELSE NoLoc]]

\* One iteration of the loop of Parse on the locals l of a call.
StepParse(g, l) ==
    IF l.tokens = <<>> THEN PanicOf(l, "index out of range")
    ELSE LET act == Lookup(g.actionTable,
                           tableKey(l.stateStack[Len(l.stateStack)],
                                    SymbolOf(l.tokens[1], KeywordsOf(g))))
         IN  CASE act.type = "shift" ->
                    [l EXCEPT !.resultStack = Append(@, l.tokens[1]),
                              !.stateStack = PushState(@, act.state),
                              !.tokens = Tail(@)]
               [] act.type = "reduce" -> ReduceOf(g, l, act)
               [] act.type = "accept" ->
                    IF l.resultStack = <<>> THEN PanicOf(l, "index out of range")
                    ELSE [l EXCEPT !.pc = "returned",
                                   !.ret = [kind |-> "value",
                                            value |-> AcceptedValue(l.resultStack)]]
               [] OTHER -> ErrorOf(g, l)

\* The grammars and the token lists of the two calls.
SharedGrammars == {ArithRules, ShiftReduceRules, EofStartRules}

SharedInputs ==
    {Example(1), Example(2), Example(4), Example(5),
     Located(<<Number(1), EOF>>),
     Located(<<Number(1), Symbol("+"), Number(1), EOF>>)}

\* The first call of Parse up to the first iteration of its loop.
StartFirst ==
    /\ pc = "built"
    /\ \E toks \in SharedInputs :
        /\ tokens' = toks
        /\ input' = toks
    /\ terminals' = Columns(gr.actionTable)
    /\ keywords' = KeywordsOf(gr)
    /\ stateStack' = <<gr.initialState>>
    /\ resultStack' = <<>>
    /\ fold' = NoFold
    /\ pc' = "parse"
    /\ UNCHANGED <<gr, states, state, tr, pending, callVars>>
    /\ UNCHANGED <<helperVars, other>>

\* The second call of Parse up to the first iteration of its loop, made while
\* the first is under way or after it.
StartOther ==
    /\ pc \in {"parse", "returned"}
    /\ other = NoCall
    /\ \E toks \in SharedInputs :
        other' = [pc |-> "parse", tokens |-> toks, input |-> toks,
                  stateStack |-> NewStacks(gr).stateStack,
                  resultStack |-> NewStacks(gr).resultStack,
                  ret |-> [kind |-> "none"]]
    /\ UNCHANGED <<gr, pc, states, state, tr, terminals, pending, parseVars,
                   callVars, fold, helperVars>>

\* An iteration of the loop of the second call.
StepOther ==
    /\ other.pc = "parse"
    /\ Len(other.stateStack) < MaxStack
    /\ other' = StepParse(gr, other)
    /\ UNCHANGED <<gr, pc, states, state, tr, terminals, pending, parseVars,
                   callVars, fold, helperVars>>

InitShared == Init /\ config.helper = "none" /\ gr.Rules \in SharedGrammars

NextShared ==
    \/ Dequeue
    \/ Expand
    \/ EndWorklist
    \/ PopulateReduce
    \/ StartFirst
    \/ StartOther
    \/ OutOfTokens
    \/ Shift
    \/ Reduce
    \/ Accept
    \/ Error
    \/ StepOther

\* The goroutines run in any order, one step of one of them at a time.
SpecShared == InitShared /\ [][NextShared]_vars

(***************************************************************************)
(* The arithmetic example evaluated without a parser: the reference the    *)
(* results of Parse are compared with.                                     *)
(***************************************************************************)
ArithOps == {"+", "-", "*", "/"}

\* expr n1 op1 n2 ... opk n(k+1) EOF
IsExpression(toks) ==
    /\ Len(toks) >= 3
    /\ Len(toks) % 2 = 1
    /\ toks[1].Type = "Word" /\ toks[1].Form = "expr"
    /\ toks[Len(toks)].Type = "EOF"
    /\ \A i \in 2..(Len(toks) - 1) :
          IF i % 2 = 0 THEN toks[i].Type = "Number"
          ELSE toks[i].Type = "Symbol" /\ toks[i].Form \in ArithOps

\* n1 op1 n2 ... opk n(k+1)
Operands(toks) == SubSeq(toks, 2, Len(toks) - 1)

\* Some '/' of the expression has the number 0 to its right.
DividesByZero(e) ==
    \E i \in 1..(Len(e) - 1) :
        e[i].Type = "Symbol" /\ e[i].Form = "/" /\ Atoi(e[i + 1].Form) = 0

\* The last '+' or '-' of e, 0 when there is none.
LastAdditive(e) ==
    LET at == {i \in 1..Len(e) : e[i].Type = "Symbol" /\ e[i].Form \in {"+", "-"}}
    IN  IF at = {} THEN 0 ELSE CHOOSE i \in at : \A j \in at : j <= i

\* A product n1 op1 ... opk n(k+1) of '*' and '/', grouped from the left.  The
\* operands are not negative: the truncated quotient is \div.
RECURSIVE EvalMul(_)
EvalMul(e) ==
    IF Len(e) = 1 THEN Atoi(e[1].Form)
    ELSE LET l == EvalMul(SubSeq(e, 1, Len(e) - 2))
             r == Atoi(e[Len(e)].Form)
         IN  IF e[Len(e) - 1].Form = "*" THEN l * r ELSE l \div r

\* A sum of products, grouped from the left.
RECURSIVE EvalAdd(_)
EvalAdd(e) ==
    LET i == LastAdditive(e)
    IN  IF i = 0 THEN EvalMul(e)
        ELSE LET l == EvalAdd(SubSeq(e, 1, i - 1))
                 r == EvalMul(SubSeq(e, i + 1, Len(e)))
             IN  IF e[i].Form = "+" THEN l + r ELSE l - r

\* Parse of the arithmetic grammar has ended on an expression.
ArithEnded ==
    /\ gr.Rules = ArithRules
    /\ pc \in {"returned", "panic"}
    /\ IsExpression(input)

(***************************************************************************)
(* C1                                                                      *)
(***************************************************************************)
\* C1 as stated: for the arithmetic grammar and every token list
\* expr n1 op1 n2 ... opk n(k+1) EOF, Parse succeeds and returns the value of
\* the expression, '*' and '/' binding tighter than '+' and '-', all four
\* grouping from the left.
C1_EveryExpressionEvaluates ==
    ArithEnded =>
        /\ ret.kind = "value"
        /\ ret.value = IntValue(EvalAdd(Operands(input)))

\* C1 amended: when no '/' of the expression is followed by the number 0,
\* Parse succeeds and returns the value of the expression ('/' the quotient
\* truncated toward zero), so that expr 2+3*4 gives 14, expr 10-4-3 gives 3
\* and expr 1+2*3+4 gives 11; when some '/' is followed by 0, Parse panics
\* with an integer division by zero.
C1_ExpressionEvaluatesUnlessDividingByZero ==
    /\ ArithEnded =>
          IF DividesByZero(Operands(input))
          THEN ret = [kind |-> "panic", msg |-> "integer divide by zero"]
          ELSE /\ ret.kind = "value"
               /\ ret.value = IntValue(EvalAdd(Operands(input)))
    /\ (ArithEnded /\ input = Example(1)) => ret.value = IntValue(14)
    /\ (ArithEnded /\ input = Example(2)) => ret.value = IntValue(3)
    /\ (ArithEnded /\ input = Example(3)) => ret.value = IntValue(11)

\* Parse has returned 11 for expr 1+2*3+4.
C1_Witness ==
    /\ ArithEnded
    /\ input = Example(3)
    /\ ret = [kind |-> "value", value |-> IntValue(11)]

(***************************************************************************)
(* C2                                                                      *)
(***************************************************************************)
\* Parse of the arithmetic grammar has returned for expr 2 2 EOF.
TwoNumbersEnded ==
    /\ gr.Rules = ArithRules
    /\ pc \in {"returned", "panic"}
    /\ input = Example(5)

\* C2 as stated: for the arithmetic grammar, Parse of expr 2 2 EOF returns an
\* error at the second number token whose expected alternatives are exactly
\* '+', '-', '*', '/' and EOF.
C2_ExpectsOperatorsAndEOF ==
    TwoNumbersEnded =>
        /\ ret.kind = "error"
        /\ ret.loc = input[3].Loc
        /\ ret.expected = {"'+'", "'-'", "'*'", "'/'", "EOF"}

\* C2 amended: for the arithmetic grammar, Parse of expr 2 2 EOF returns an
\* error at the second number token whose only expected alternative is EOF:
\* the first number is reduced up to Expr on every seen terminal, and the
\* state reached has an entry for EOF only.
C2_ExpectsEOFOnly ==
    TwoNumbersEnded =>
        /\ ret = [kind |-> "error", msg |-> "expected", expected |-> {"EOF"},
                  loc |-> input[3].Loc]
        /\ input[3].Type = "Number"
        /\ tokens = SubSeq(input, 3, Len(input))

\* Parse has returned the error for expr 2 2 EOF.
C2_Witness ==
    /\ TwoNumbersEnded
    /\ ret.kind = "error"
    /\ Len(stateStack) = 2

(***************************************************************************)
(* C3                                                                      *)
(***************************************************************************)
\* The iteration finds no entry in ACTION for the top state and the symbol
\* of the front token.
MissingEntry ==
    /\ pc = "parse"
    /\ tokens # <<>>
    /\ tableKey(currentState, symb) \notin DOMAIN gr.actionTable

\* The terminal columns of ACTION that the state has an entry for.
DefinedColumns(st) ==
    {t \in Columns(gr.actionTable) : tableKey(st, t) \in DOMAIN gr.actionTable}

\* The step of an iteration that finds no entry: Parse returns an error at
\* the front token, which stays in place with both stacks, and the error
\* names the rendered terminal columns defined for the current state, and
\* the token's location when there is such a column.
MissingEntryStep ==
    MissingEntry =>
        /\ pc' = "returned"
        /\ ret'.kind = "error"
        /\ ret'.loc = IF DefinedColumns(currentState) = {} THEN NoLoc ELSE token.Loc
        /\ tokens' = tokens
        /\ stateStack' = stateStack /\ resultStack' = resultStack
        /\ ret'.expected = {Rendered(t) : t \in DefinedColumns(currentState)}
        /\ ret'.msg = CASE Cardinality(DefinedColumns(currentState)) = 0 ->
                               "no expected symbol"
                        [] Cardinality(DefinedColumns(currentState)) = 1 ->
                               "expected"
                        [] OTHER -> "expected one of"

\* Parse of the arithmetic grammar fails for expr + EOF at '+', expecting a
\* number and nothing else.
PlusFails ==
    (gr.Rules = ArithRules /\ pc \in {"returned", "panic"} /\ input = Example(4)) =>
        /\ ret = [kind |-> "error", msg |-> "expected", expected |-> {"number"},
                  loc |-> input[2].Loc]
        /\ input[2].Form = "+"

\* C3: whenever ACTION has no entry for the top state and the symbol of the
\* front token, Parse returns an error without panicking and without
\* consuming the token; the expected alternatives are exactly the terminal
\* columns defined for the current state, one giving 'expected', several
\* 'expected one of', none 'no expected symbol'; expr + EOF fails at '+'
\* with the single alternative 'number'.
C3_MissingEntryReturnsError == [][MissingEntryStep]_vars /\ []PlusFails

\* Parse has returned the error for expr + EOF, the '+' still at the front.
C3_Witness ==
    /\ gr.Rules = ArithRules
    /\ pc = "returned"
    /\ input = Example(4)
    /\ ret.kind = "error"
    /\ tokens[1].Form = "+"

(***************************************************************************)
(* C4                                                                      *)
(***************************************************************************)
\* Parse has taken the Accept action: Accept leaves both stacks as they were.
Accepted == pc = "returned" /\ ret.kind = "value"

\* C4 as stated: for every built grammar and every token list, when Parse
\* takes the Accept action the result stack holds exactly 1 value and the
\* state stack exactly 2 state keys.
C4_AcceptWithOneResult ==
    Accepted => Len(resultStack) = 1 /\ Len(stateStack) = 2

\* The start rule has one symbol on its right, and the start symbol is on
\* the right of no rule.
Augmented(rules) ==
    /\ Len(rules[1].RHS) = 1
    /\ \A i \in 1..Len(rules) : \A j \in 1..Len(rules[i].RHS) :
          rules[i].RHS[j] # rules[1].LHS

\* C4 amended: for every built grammar whose start rule has exactly one
\* symbol on its right and whose start symbol occurs on the right of no
\* rule, when Parse takes the Accept action the result stack holds exactly 1
\* value and the state stack exactly 2 state keys.
C4_AugmentedAcceptWithOneResult ==
    (Accepted /\ Augmented(gr.Rules)) =>
        Len(resultStack) = 1 /\ Len(stateStack) = 2

\* Parse has accepted an expression of the arithmetic grammar with two
\* operators.
C4_Witness ==
    /\ Accepted
    /\ Augmented(gr.Rules)
    /\ gr.Rules = ArithRules
    /\ Len(input) = 7

(***************************************************************************)
(* C5                                                                      *)
(***************************************************************************)
\* C5: Parse terminates on every token list ending in EOF, for every
\* grammar NewGrammar builds without a conflict: a call of Parse accepts or
\* returns an error (or panics) after finitely many steps; it never reduces
\* forever.
C5_ParseTerminates == (pc = "parse") ~> (pc \in {"returned", "panic"})

(***************************************************************************)
(* C6                                                                      *)
(***************************************************************************)
\* C6: building the same rule list twice yields identical ACTION and GOTO
\* tables and the same initial state, whatever order the builder ranges
\* over a state's outgoing symbols and over the states; and if one build
\* ends in a conflict panic, so does the other.
C6_BuildIsDeterministic ==
    (first.kind # "none" /\ pc \in {"built", "panic"}) => Outcome = first

\* The second build of the arithmetic grammar has ended, after a first one.
C6_Witness ==
    /\ first.kind = "built"
    /\ pc = "built"
    /\ gr.Rules = ArithRules
    /\ gr.actionTable # EmptyMap

(***************************************************************************)
(* C7 and C8                                                               *)
(***************************************************************************)
\* The non-start rules whose completed item is in the state with key `key`.
CompletedRules(key) ==
    {i \in 1..(Len(gr.Rules) - 1) :
        HasCompleted(gr.Rules, ItemStrings(gr.states[key]), i)}

\* The state has an item with the terminal t immediately after the dot.
HasShift(key, t) == IsTerminal(t) /\ t \in Transitions(gr.states[key])

\* The key of the goto successor of the state on t.
Successor(key, t) ==
    StateString(State(closeItems(gr.Rules, Advance(gr.states[key], t))))

\* A cell that a completed item would fill holds, or comes to hold, a
\* non-shift action: the state has no shift on the seen terminal t, and it
\* holds the completed items of two non-start rules, or of one together
\* with Accept on t.
ConflictCell(key, t) ==
    /\ t \in Columns(gr.actionTable)
    /\ ~HasShift(key, t)
    /\ \/ Cardinality(CompletedRules(key)) >= 2
       \/ /\ CompletedRules(key) # {}
          /\ Lookup(gr.actionTable, tableKey(key, t)).type = "accept"

\* NewGrammar has panicked over a conflict.
BuildPanicked == pc = "panic" /\ stateStack = <<>> /\ ret.msg = "conflict"

\* C7: after construction, for every state s and terminal t such that s has
\* an item with t immediately after the dot and a completed item of a
\* non-start rule, ACTION[(s, t)] is Shift to the goto successor of s on t;
\* construction fails only over a cell with no shift.
C7_ShiftOverReduce ==
    /\ pc = "built" =>
          \A key \in DOMAIN gr.states : \A t \in Transitions(gr.states[key]) :
              (HasShift(key, t) /\ CompletedRules(key) # {}) =>
                  Lookup(gr.actionTable, tableKey(key, t)) =
                      shiftAction(Successor(key, t))
    /\ BuildPanicked =>
          \E key \in DOMAIN gr.states : \E t \in Columns(gr.actionTable) :
              ConflictCell(key, t)

\* A grammar is built whose state holds A -> A + A with the dot at its end
\* and with the dot in front of '+'.
C7_Witness ==
    /\ pc = "built"
    /\ gr.Rules = ShiftReduceRules
    /\ \E key \in DOMAIN gr.states :
          /\ HasShift(key, "&+")
          /\ CompletedRules(key) # {}
          /\ gr.actionTable[tableKey(key, "&+")].type = "shift"

\* C8: construction panics whenever a cell that a completed item of a rule
\* i >= 1 would fill holds a non-shift action, in particular whenever a
\* state holds the completed items of two different non-start rules and
\* some seen terminal has no shift out of it: a build that has not panicked
\* has no such cell in a state the reduce population has visited.
C8_ConflictPanics ==
    pc \in {"reduce", "built"} =>
        \A key \in DOMAIN gr.states \ pending : \A t \in Columns(gr.actionTable) :
            ~ConflictCell(key, t)

\* NewGrammar has panicked over a state with the completed items of two
\* rules.
C8_Witness ==
    /\ BuildPanicked
    /\ ret = [kind |-> "panic", msg |-> "conflict"]
    /\ gr.Rules = ReduceReduceRules
    /\ \E key \in pending : Cardinality(CompletedRules(key)) = 2

(***************************************************************************)
(* C9                                                                      *)
(***************************************************************************)
\* The columns of the two tables.
AllColumns == Columns(gr.actionTable) \cup Columns(gr.gotoTable)

InAction(key, c) == tableKey(key, c) \in DOMAIN gr.actionTable
InGoto(key, c) == tableKey(key, c) \in DOMAIN gr.gotoTable

\* C9 as stated: for every state of the built automaton and every column of
\* either table, exactly one of ACTION[(s, c)] and GOTO[(s, c)] is defined.
C9_ExactlyOneTable ==
    pc = "built" =>
        \A key \in DOMAIN gr.states : \A c \in AllColumns :
            InAction(key, c) # InGoto(key, c)

\* C9 amended: for every state of the built automaton and every column of
\* either table, ACTION[(s, c)] and GOTO[(s, c)] are never both defined:
\* ACTION is defined only in columns that begin with '_' or '&', GOTO only
\* in the other columns; a cell may be defined in neither table.
C9_NeverBothTables ==
    pc = "built" =>
        \A key \in DOMAIN gr.states : \A c \in AllColumns :
            /\ ~(InAction(key, c) /\ InGoto(key, c))
            /\ InAction(key, c) => IsTerminal(c)
            /\ InGoto(key, c) => ~IsTerminal(c)

\* The arithmetic grammar is built, and one of its states has a cell in
\* ACTION, a cell in GOTO and a cell in neither table.
C9_Witness ==
    /\ pc = "built"
    /\ gr.Rules = ArithRules
    /\ \E key \in DOMAIN gr.states :
          /\ \E c \in AllColumns : InAction(key, c)
          /\ \E c \in AllColumns : InGoto(key, c)
          /\ \E c \in AllColumns : ~InAction(key, c) /\ ~InGoto(key, c)

(***************************************************************************)
(* C10                                                                     *)
(***************************************************************************)
\* An iteration of the Parse loop begins.
AtLoopStart == pc = "parse"

\* What an iteration that leads to another iteration does to the stacks.
StackStep ==
    (AtLoopStart /\ tokens # <<>> /\ pc' = "parse") =>
        CASE action.type = "shift" ->
                /\ stateStack' = Append(stateStack, action.state)
                /\ Len(resultStack') = Len(resultStack) + 1
                /\ SubSeq(resultStack', 1, Len(resultStack)) = resultStack
          [] action.type = "reduce" ->
                LET n == Len(gr.Rules[action.rule + 1].RHS)
                IN  /\ Len(stateStack') = Len(stateStack) - n + 1
                    /\ Len(resultStack') = Len(resultStack) - n + 1
                    /\ SubSeq(stateStack', 1, Len(stateStack) - n) =
                           SubSeq(stateStack, 1, Len(stateStack) - n)
                    /\ SubSeq(resultStack', 1, Len(resultStack) - n) =
                           SubSeq(resultStack, 1, Len(resultStack) - n)
          [] OTHER -> stateStack' = stateStack /\ resultStack' = resultStack

\* An iteration that ends Parse by Accept or by an error leaves the stacks.
LastStep ==
    (AtLoopStart /\ pc' = "returned") =>
        stateStack' = stateStack /\ resultStack' = resultStack

\* C10: at the start of every iteration of the Parse loop the state stack is
\* exactly one longer than the result stack; a Shift pushes one entry on
\* each, a Reduce of rule r pops |r.rhs| entries from each and pushes one on
\* each, and no other step changes either stack.
C10_StacksInStep ==
    /\ [](AtLoopStart => Len(stateStack) = Len(resultStack) + 1)
    /\ [][StackStep /\ LastStep]_vars

\* An iteration begins with four states on the stack, after a reduce.
C10_Witness ==
    /\ AtLoopStart
    /\ Len(stateStack) = 4
    /\ Len(resultStack) = 3
    /\ \E i \in 1..3 : IsInt(resultStack[i])

(***************************************************************************)
(* C11                                                                     *)
(***************************************************************************)
\* The iteration is about to reduce.
AtReduce == pc = "parse" /\ tokens # <<>> /\ action.type = "reduce"

\* The rule the iteration reduces by.
ReducedRule == gr.Rules[action.rule + 1]

HasTerminalPrefix(s) == Bytes[s][1] \in {95, 38}

\* A Reduce step calls the fold of its rule with the top |rhs| values of the
\* result stack, bottom to top.
ReduceStep ==
    AtReduce =>
        /\ Len(resultStack) >= Len(ReducedRule.RHS)
        /\ fold'.kind = "call"
        /\ fold'.rule = action.rule
        /\ fold'.args = SubSeq(resultStack,
                               Len(resultStack) - Len(ReducedRule.RHS) + 1,
                               Len(resultStack))

\* The arguments of the latest fold call match the RHS of its rule: a token
\* of the input with that terminal where the RHS has a terminal, a value an
\* earlier fold of a rule with that LHS returned where it has a nonterminal.
FoldArgsMatchRHS ==
    fold.kind = "call" =>
        LET rhs == gr.Rules[fold.rule + 1].RHS
        IN  /\ Len(fold.args) = Len(rhs)
            /\ \A j \in 1..Len(rhs) :
                  IF HasTerminalPrefix(rhs[j])
                  THEN /\ \E k \in 1..Len(input) : fold.args[j] = input[k]
                       /\ SymbolOf(fold.args[j], keywords) = rhs[j]
                  ELSE <<rhs[j], fold.args[j]>> \in fold.earlier

\* C11: whenever Parse reduces by rule r, the result stack holds at least
\* |r.rhs| values and the fold is called with exactly the top |r.rhs| values
\* in bottom-to-top order, the j-th a shifted token where r.rhs[j] is a
\* terminal and the value of an earlier fold of a rule with lhs r.rhs[j]
\* where it is a nonterminal.
C11_FoldGetsTopValues == [][ReduceStep]_vars /\ []FoldArgsMatchRHS

\* Parse has reduced by A -> A + A: the fold got a node, the token '+' and a
\* node.
C11_Witness ==
    /\ gr.Rules = ShiftReduceRules
    /\ Len(input) >= 3
    /\ input[2].Form = "+"
    /\ fold.kind = "call"
    /\ fold.rule = 1
    /\ fold.args = <<NodeValue("A"), input[2], NodeValue("A")>>

(***************************************************************************)
(* C12                                                                     *)
(***************************************************************************)
CantReduce == [kind |-> "panic", msg |-> "can't reduce"]

\* After the pop of the Reduce at hand a state is left on the stack, and
\* GOTO has an entry for it and the LHS of the rule.
GotoAfterPop ==
    /\ Len(stateStack) > Len(ReducedRule.RHS)
    /\ tableKey(stateStack[Len(stateStack) - Len(ReducedRule.RHS)],
                ReducedRule.LHS) \in DOMAIN gr.gotoTable

\* C12 as stated: for every grammar built without a conflict and every
\* token list, each Reduce step finds GOTO[(state on top after popping,
\* rule.lhs)] defined; the "can't reduce" panic is unreachable.
C12_GotoAlwaysDefined ==
    /\ AtReduce => GotoAfterPop
    /\ ret # CantReduce

\* No LHS of the rules has the prefix of a terminal.
NonterminalLhs(rules) ==
    \A k \in 1..Len(rules) : ~HasTerminalPrefix(rules[k].LHS)

\* C12 amended: for every grammar built without a conflict in which no LHS
\* begins with '_' or '&', each Reduce step finds GOTO[(state on top after
\* popping, rule.lhs)] defined, and the "can't reduce" panic is unreachable.
C12_GotoDefinedForNonterminalLhs ==
    NonterminalLhs(gr.Rules) =>
        /\ AtReduce => GotoAfterPop
        /\ ret # CantReduce

\* Parse of the arithmetic grammar has reduced by MulExpr -> MulExpr * ConstExpr
\* and gone on.
C12_Witness ==
    /\ gr.Rules = ArithRules
    /\ pc = "parse"
    /\ fold.kind = "call"
    /\ fold.rule = 5
    /\ Len(stateStack) = 3

(***************************************************************************)
(* C13                                                                     *)
(***************************************************************************)
\* The token list Parse was called with ends with its only EOF token.
EndsWithSingleEOF(toks) ==
    /\ toks # <<>>
    /\ \A k \in 1..Len(toks) : (toks[k].Type = "EOF") <=> (k = Len(toks))

\* C13: for a token list that ends with a single EOF token, every iteration
\* of the Parse loop finds at least one remaining token: no Shift consumes
\* the EOF token, and Parse never reads the front of an empty list.
C13_FrontTokenAlwaysThere ==
    /\ (pc = "parse" /\ EndsWithSingleEOF(input)) => tokens # <<>>
    /\ EndsWithSingleEOF(input) =>
          ret # [kind |-> "panic", msg |-> "index out of range"]

(***************************************************************************)
(* C14                                                                     *)
(***************************************************************************)
\* Parse of a cascade grammar has ended on a op b op c EOF, op the lexeme of
\* the one symbol of the operator at i in the list of the call.
CascadeEndedOn(i) ==
    /\ pc \in {"returned", "panic"}
    /\ Len(input) = 6
    /\ input[2].Form = input[4].Form
    /\ config.ops[i].Symbols = <<"&" \o input[2].Form>>

LeftTree ==
    OperatorBuilder(input[2].Form,
                    OperatorBuilder(input[2].Form, input[1], input[3]),
                    input[5])

RightTree ==
    OperatorBuilder(input[2].Form,
                    input[1],
                    OperatorBuilder(input[2].Form, input[3], input[5]))

\* C14: for a grammar whose rules come from BuildOperatorRules, Parse of
\* leaf op leaf op leaf returns builder(op, builder(op, a, b), c) when op is
\* left-associative and builder(op, a, builder(op, b, c)) when op is
\* right-associative.
C14_AssociativityOfCascade ==
    config.helper = "BuildOperatorRules" =>
        \A i \in 1..Len(config.ops) :
            CascadeEndedOn(i) =>
                /\ config.ops[i].Associativity = LeftAssociative =>
                      ret = [kind |-> "value", value |-> LeftTree]
                /\ config.ops[i].Associativity = RightAssociative =>
                      ret = [kind |-> "value", value |-> RightTree]

\* Parse of 1 + 1 + 1 with a left-associative '+' under a right-associative
\* '*' has returned the tree that leans to the left.
C14_Witness ==
    /\ config.helper = "BuildOperatorRules"
    /\ config.ops = <<Operator(LeftAssociative, 1, <<"&+">>),
                      Operator(RightAssociative, 2, <<"&*">>)>>
    /\ CascadeEndedOn(1)
    /\ ret = [kind |-> "value", value |-> LeftTree]

(***************************************************************************)
(* C15                                                                     *)
(***************************************************************************)
\* The elements of a set of numbers in ascending order.
RECURSIVE Ascending(_)
Ascending(set) ==
    IF set = {} THEN <<>>
    ELSE LET least == CHOOSE p \in set : \A q \in set : p <= q
         IN  <<least>> \o Ascending(set \ {least})

\* C15: BuildOperatorRules orders the distinct priorities ascending by
\* value: the rule list is the one of the cascade whose first rule goes to
\* the level of the lowest priority, whose levels each go on to the level of
\* the next higher priority, and whose highest level goes on to the leaf; the
\* same operator list always yields this rule list.
C15_PrioritiesAscending ==
    config.helper = "BuildOperatorRules" =>
        gr.Rules = <<Rule(config.root,
                          <<OpSymbol(config.root,
                                     Ascending(Priorities(config.ops))[1])>>,
                          "args0")>>
                   \o CascadeRules(config.root, config.leaf, config.ops,
                                   Ascending(Priorities(config.ops)), 1)

(***************************************************************************)
(* C16                                                                     *)
(***************************************************************************)
\* Two rules of the list have the same LHS and RHS.
HasDuplicateRules(rules) ==
    \E i, j \in 1..Len(rules) :
        /\ i < j
        /\ rules[i].LHS = rules[j].LHS
        /\ rules[i].RHS = rules[j].RHS

\* C16: BuildOperatorRules emits the rule rootOp{p} -> nextLevel once per
\* priority level, so no two rules of its list have the same LHS and RHS,
\* and NewGrammar builds the tables of a cascade without a conflict failure
\* however many operators share a level.
C16_ThreadingOncePerLevel ==
    config.helper = "BuildOperatorRules" =>
        /\ ~HasDuplicateRules(gr.Rules)
        /\ ~BuildPanicked

(***************************************************************************)
(* C17                                                                     *)
(***************************************************************************)
\* BuildListRules("Args", number, true, "&(", "&,", "&)", builder)
BracketedListCall ==
    [helper |-> "BuildListRules", root |-> "Args", leaf |-> "_NUM",
     canBeEmpty |-> TRUE, leftBracket |-> "&(", sep |-> "&,",
     rightBracket |-> "&)"]

IsSymbol(t, c) == t.Type = "Symbol" /\ t.Form = c

\* toks is ( ) EOF.
IsEmptyBrackets(toks) ==
    /\ Len(toks) = 3
    /\ IsSymbol(toks[1], "(")
    /\ IsSymbol(toks[2], ")")
    /\ toks[3].Type = "EOF"

\* toks is ( n1 , ... , nk ) EOF, k >= 1.
IsBracketedList(toks, k) ==
    /\ Len(toks) = 2 * k + 2
    /\ IsSymbol(toks[1], "(")
    /\ IsSymbol(toks[2 * k + 1], ")")
    /\ toks[2 * k + 2].Type = "EOF"
    /\ \A j \in 1..k : toks[2 * j].Type = "Number"
    /\ \A j \in 1..(k - 1) : IsSymbol(toks[2 * j + 1], ",")

\* toks is ( n1 , ... , nk , ) EOF.
HasTrailingSeparator(toks, k) ==
    /\ Len(toks) = 2 * k + 3
    /\ IsSymbol(toks[1], "(")
    /\ IsSymbol(toks[2 * k + 1], ",")
    /\ IsSymbol(toks[2 * k + 2], ")")
    /\ toks[2 * k + 3].Type = "EOF"
    /\ \A j \in 1..k : toks[2 * j].Type = "Number"
    /\ \A j \in 1..(k - 1) : IsSymbol(toks[2 * j + 1], ",")

\* Parse has ended.
ParseEnded == pc \in {"returned", "panic"} /\ input # <<>>

\* C17: in a grammar that uses BuildListRules("Args", leaf, true, '(', ',',
\* ')', builder) over a number leaf, Parse of ( n1 , ... , nk ) with k >= 1
\* returns builder of the list of n1 to nk in the order of the input, Parse
\* of ( ) returns builder of the empty list, and Parse of a list with a
\* separator before the right bracket returns an error.
C17_BracketedList ==
    (config = BracketedListCall /\ ParseEnded) =>
        /\ \A k \in 1..MaxElems + 1 :
              IsBracketedList(input, k) =>
                  ret = [kind |-> "value",
                         value |-> ListBuilder([j \in 1..k |-> input[2 * j]])]
        /\ IsEmptyBrackets(input) =>
              ret = [kind |-> "value", value |-> ListBuilder(<<>>)]
        /\ \A k \in 1..MaxElems + 1 :
              HasTrailingSeparator(input, k) => ret.kind = "error"

\* Parse of ( 1 , 1 , 1 ) has returned builder of the three numbers.
C17_Witness ==
    /\ config = BracketedListCall
    /\ ParseEnded
    /\ IsBracketedList(input, 3)
    /\ ret = [kind |-> "value",
              value |-> ListBuilder(<<input[2], input[4], input[6]>>)]

(***************************************************************************)
(* C18                                                                     *)
(***************************************************************************)
\* The first n tokens of toks are tokens of the symbols of syms.
StartsWith(toks, syms) ==
    /\ Len(toks) >= Len(syms)
    /\ \A j \in 1..Len(syms) : SymbolOf(toks[j], keywords) = syms[j]

\* The values the folds of Parse have returned so far, each with the LHS of
\* its rule.
FoldsReturned == Returned(gr.Rules, fold)

\* BuildOptSeq has emitted exactly root -> head and root -> head tail, and
\* their folds call builder(the values of head, nil) and builder(the first
\* |head| values, the other |tail| values).
OptSeqRulesAndFolds ==
    LET h == Len(config.head)
        t == Len(config.tail)
    IN  /\ Len(gr.Rules) = 3
        /\ gr.Rules[2].LHS = config.root /\ gr.Rules[2].RHS = config.head
        /\ gr.Rules[3].LHS = config.root
        /\ gr.Rules[3].RHS = config.head \o config.tail
        /\ (fold.kind = "call" /\ fold.rule = 2) =>
              fold.value = OptSeqBuilder(SubSeq(fold.args, 1, h),
                                         SubSeq(fold.args, h + 1, h + t), FALSE)
        /\ (fold.kind = "call" /\ fold.rule = 1) =>
              fold.value = OptSeqBuilder(fold.args, <<>>, TRUE)

\* Parse has called builder on the first |head| tokens of the input and the
\* |tail| tokens after them.
BuiltHeadAndTail ==
    LET h == Len(config.head)
        t == Len(config.tail)
    IN  <<config.root,
          OptSeqBuilder(SubSeq(input, 1, h), SubSeq(input, h + 1, h + t), FALSE)>>
            \in FoldsReturned

\* Parse has called builder on the first |head| tokens of the input and nil.
BuiltHeadOnly ==
    <<config.root,
      OptSeqBuilder(SubSeq(input, 1, Len(config.head)), <<>>, TRUE)>>
        \in FoldsReturned

\* C18 as stated: BuildOptSeq(root, head, tail, builder) emits exactly the two
\* rules root -> head and root -> head tail; Parse of an input that has head
\* followed by tail reduces by the second and calls builder(the first |head|
\* values, the other |tail| values), and Parse of an input whose head is not
\* followed by the first symbol of tail reduces by the first and calls
\* builder(the values of head, nil).
C18_OptionalTail ==
    config.helper = "BuildOptSeq" =>
        /\ OptSeqRulesAndFolds
        /\ (ParseEnded /\ StartsWith(input, config.head \o config.tail)) =>
              BuiltHeadAndTail
        /\ (ParseEnded /\ StartsWith(input, config.head)
              /\ ~StartsWith(input, config.head \o <<config.tail[1]>>)) =>
              BuiltHeadOnly

\* The token at i of the input is of a terminal with a column in ACTION.
KnownTerminalAt(i) == SymbolOf(input[i], keywords) \in terminals

\* C18 amended: BuildOptSeq(root, head, tail, builder) emits exactly the two
\* rules root -> head and root -> head tail; Parse of an input that has head
\* followed by tail and then a token of a terminal of the grammar (EOF
\* included) reduces by the second and calls builder(the first |head| values,
\* the other |tail| values), and Parse of an input whose head is followed by
\* a token of a terminal of the grammar other than the first symbol of tail
\* reduces by the first and calls builder(the values of head, nil).
C18_OptionalTailBeforeKnownTerminal ==
    config.helper = "BuildOptSeq" =>
        /\ OptSeqRulesAndFolds
        /\ (ParseEnded /\ StartsWith(input, config.head \o config.tail)
              /\ KnownTerminalAt(Len(config.head) + Len(config.tail) + 1)) =>
              BuiltHeadAndTail
        /\ (ParseEnded /\ StartsWith(input, config.head)
              /\ KnownTerminalAt(Len(config.head) + 1)
              /\ ~StartsWith(input, config.head \o <<config.tail[1]>>)) =>
              BuiltHeadOnly

\* Parse of expr 1 + with the head 'expr' number and the tail '+' has
\* returned builder of the two values of the head and the one of the tail.
C18_Witness ==
    /\ config.helper = "BuildOptSeq"
    /\ config.head = <<"&expr", "_NUM">>
    /\ config.tail = <<"&+">>
    /\ ParseEnded
    /\ Len(input) = 4
    /\ ret = [kind |-> "value",
              value |-> OptSeqBuilder(<<input[1], input[2]>>, <<input[3]>>, FALSE)]

(***************************************************************************)
(* C19                                                                     *)
(***************************************************************************)
\* The position of the first token that went into the last token of tokens2:
\* every lexeme of the inputs is one character long.
LastStart == scanPos - ByteLen(tokens2[Len(tokens2)].Form)

\* The cluster c fits at the position i: it has two characters or more, the
\* token at i is a Symbol with the first, and the tokens after it are
\* Symbols or Words with the others, one each.
Fits(c, i) ==
    /\ ByteLen(c) >= 2
    /\ i + ByteLen(c) <= Len(tokens)
    /\ tokens[i + 1].Type = "Symbol"
    /\ \A j \in 0..(ByteLen(c) - 1) :
          /\ tokens[i + j + 1].Type \in {"Symbol", "Word"}
          /\ Bytes[tokens[i + j + 1].Form] = <<Bytes[c][j + 1]>>

\* C19 as stated: when two clusters of the list both fit at a position, the
\* longer is the one fused, whatever their order in the list.
C19_MaximalMunch ==
    tokens2 # <<>> =>
        \A k \in 1..Len(clusters) :
            Fits(clusters[k], LastStart) =>
                ByteLen(tokens2[Len(tokens2)].Form) >= ByteLen(clusters[k])

\* The index of the first cluster of the list that fits at i.
FirstFitting(i) ==
    CHOOSE k \in 1..Len(clusters) :
        /\ Fits(clusters[k], i)
        /\ \A l \in 1..(k - 1) : ~Fits(clusters[l], i)

\* C19 amended: when two clusters of the list both fit at a position, the
\* one fused is the one that comes first in the list; the longer is fused
\* only when no shorter cluster that fits comes before it.
C19_FirstInListWins ==
    tokens2 # <<>> =>
        ((\E k \in 1..Len(clusters) : Fits(clusters[k], LastStart)) =>
            tokens2[Len(tokens2)].Form = clusters[FirstFitting(LastStart)])

\* '>>' before '>>=' against > > =: '>>' has been fused, the shorter of the
\* two that fit.
C19_Witness ==
    /\ clusters = <<">>", ">>=">>
    /\ Len(tokens) = 3
    /\ Fits(">>=", 0)
    /\ Len(tokens2) = 1
    /\ tokens2[1].Form = ">>"
    /\ scanPos = 2

(***************************************************************************)
(* C20                                                                     *)
(***************************************************************************)
\* An iteration at the position scanPos: the first cluster of the list that
\* fits there is fused into a Symbol at the location of the first token and
\* the scan goes on behind the cluster; when none fits the token goes out
\* as it is and the scan goes on behind it.
IterationStep ==
    (pc = "coalesce" /\ scanPos < Len(tokens)) =>
        IF \E k \in 1..Len(clusters) : Fits(clusters[k], scanPos)
        THEN LET c == clusters[FirstFitting(scanPos)]
             IN  /\ tokens2' = Append(tokens2,
                                      Token("Symbol", c, tokens[scanPos + 1].Loc))
                 /\ scanPos' = scanPos + ByteLen(c)
        ELSE /\ tokens2' = Append(tokens2, tokens[scanPos + 1])
             /\ scanPos' = scanPos + 1

\* C20: in CoalesceSymbols, at a Symbol token at position i the clusters
\* that start with the token's character are tried in list order, the first
\* cluster c of two or more characters whose other characters are, one per
\* token, the lexemes of the next |c|-1 tokens (Symbols or Words) is fused,
\* and the scan resumes at i+|c|; a position where no cluster fits emits the
\* original token.
C20_FirstFitAndResume == [][IterationStep]_vars

\* '>=' has been fused at the position 1 of x > = and the scan is behind it.
C20_Witness ==
    /\ clusters = <<">>", ">=">>
    /\ Len(tokens) = 3
    /\ tokens[1].Type = "Word"
    /\ Fits(">=", 1)
    /\ scanPos = 3
    /\ tokens2 = <<tokens[1], Token("Symbol", ">=", 2)>>

(***************************************************************************)
(* C21                                                                     *)
(***************************************************************************)
\* The number of input tokens behind the token at k of tokens2 when it
\* stands for the input from the position p on: one when it is the input
\* token itself, the length of its lexeme when it was made of a cluster.
RunLength(k, p) ==
    IF p < Len(tokens) /\ tokens2[k] = tokens[p + 1] THEN 1
    ELSE ByteLen(tokens2[k].Form)

\* The input position at which the token at k of tokens2 starts.
RECURSIVE RunStart(_)
RunStart(k) ==
    IF k = 1 THEN 0
    ELSE RunStart(k - 1) + RunLength(k - 1, RunStart(k - 1))

\* The token at k of tokens2 was made of a cluster.
IsFusedAt(k) ==
    ~(RunStart(k) < Len(tokens) /\ tokens2[k] = tokens[RunStart(k) + 1])

\* The bytes of the lexemes of toks, one after the other.
RECURSIVE FormBytes(_)
FormBytes(toks) ==
    IF toks = <<>> THEN <<>>
    ELSE Bytes[toks[1].Form] \o FormBytes(Tail(toks))

\* The tokens a run of the output saves: |cluster| - 1 for a fused run.
RECURSIVE SavedUpTo(_)
SavedUpTo(k) ==
    IF k = 0 THEN 0
    ELSE SavedUpTo(k - 1)
         + (IF IsFusedAt(k) THEN ByteLen(tokens2[k].Form) - 1 ELSE 0)

\* C21: every token CoalesceSymbols creates is a Symbol whose lexeme is a
\* cluster of the list and is spelt by the tokens it stands for, located at
\* the first of them; every other token of the input is in the output as it
\* was and in its order; so the lexemes of the output spell what the lexemes
\* of the scanned input spell, and the output is shorter than the scanned
\* input by the sum of |cluster| - 1 over the fused runs.
C21_FusedAndKeptTokens ==
    /\ \A k \in 1..Len(tokens2) :
          LET p == RunStart(k)
              n == RunLength(k, p)
          IN  /\ p + n <= scanPos
              /\ IsFusedAt(k) =>
                    /\ tokens2[k].Type = "Symbol"
                    /\ \E l \in 1..Len(clusters) : tokens2[k].Form = clusters[l]
                    /\ n >= 2
                    /\ tokens2[k].Loc = tokens[p + 1].Loc
                    /\ \A j \in 0..(n - 1) :
                          Bytes[tokens[p + j + 1].Form] = <<Bytes[tokens2[k].Form][j + 1]>>
    /\ RunStart(Len(tokens2) + 1) = scanPos
    /\ FormBytes(tokens2) = FormBytes(SubSeq(tokens, 1, scanPos))
    /\ Len(tokens2) = scanPos - SavedUpTo(Len(tokens2))
    /\ pc = "coalesced" =>
          /\ scanPos = Len(tokens)
          /\ ret = [kind |-> "tokens", value |-> tokens2]

\* CoalesceSymbols has returned x and '>>=' for x > > =.
C21_Witness ==
    /\ pc = "coalesced"
    /\ Len(tokens) = 4
    /\ Len(tokens2) = 2
    /\ tokens2[1] = tokens[1]
    /\ tokens2[1].Type = "Word"
    /\ tokens2[2] = Token("Symbol", ">>=", tokens[2].Loc)

(***************************************************************************)
(* C22                                                                     *)
(***************************************************************************)
\* A call of Parse on toks run alone from its start to its end, or for
\* MaxSteps iterations.
RECURSIVE RunFrom(_, _, _)
RunFrom(g, l, fuel) ==
    IF l.pc # "parse" \/ fuel = 0 THEN l
    ELSE RunFrom(g, StepParse(g, l), fuel - 1)

RunAlone(g, toks) ==
    RunFrom(g, [pc |-> "parse", tokens |-> toks, input |-> toks,
                stateStack |-> <<g.initialState>>, resultStack |-> <<>>,
                ret |-> [kind |-> "none"]], MaxSteps)

\* A step taken after the first call of Parse has started leaves the Grammar
\* as it was.
GrammarUnchanged == input # <<>> => gr' = gr

\* Each call that has ended has the result of the call run alone on its
\* token list.
ResultsAsAlone ==
    /\ (input # <<>> /\ pc \in {"returned", "panic"}) =>
          LET alone == RunAlone(gr, input)
          IN  alone.pc = pc /\ alone.ret = ret
    /\ other.pc \in {"returned", "panic"} =>
          LET alone == RunAlone(gr, other.input)
          IN  alone.pc = other.pc /\ alone.ret = other.ret

\* C22: Parse never modifies the Grammar, and two Parse calls that run at the
\* same time on one Grammar, each with its own stacks and token list, each
\* return under any interleaving of their steps what they return when run
\* alone.
C22_ConcurrentParsesAsAlone == [][GrammarUnchanged]_vars /\ []ResultsAsAlone

\* Both calls on the arithmetic grammar have ended: the first returned 14 for
\* expr 2+3*4, the second an error for expr 2 2.
C22_Witness ==
    /\ gr.Rules = ArithRules
    /\ pc = "returned"
    /\ input = Example(1)
    /\ ret = [kind |-> "value", value |-> IntValue(14)]
    /\ other.pc = "returned"
    /\ other.input = Example(5)
    /\ other.ret.kind = "error"

(***************************************************************************)
(* C23                                                                     *)
(***************************************************************************)
\* The columns of ACTION with a Shift or an Accept: the cells of both are
\* written before the reduces, and no reduce takes the place of one.
SeenTerminals ==
    {k.column : k \in {c \in DOMAIN gr.actionTable :
                          gr.actionTable[c].type \in {"shift", "accept"}}}

\* C23: after construction ACTION[(s, t)] = Reduce(i) exactly when
\* 1 <= i < |rules|, the state s holds the completed item of rule i, t is a
\* seen terminal and s has no Shift or Accept on t: no Reduce is of rule 0,
\* and a state with a completed item has its Reduce on every seen terminal
\* that is free, whatever may follow the rule.
C23_ReduceCells ==
    pc = "built" =>
        /\ \A k \in DOMAIN gr.actionTable :
              gr.actionTable[k].type = "reduce" =>
                  /\ k.row \in DOMAIN gr.states
                  /\ gr.actionTable[k].rule \in 1..(Len(gr.Rules) - 1)
                  /\ gr.actionTable[k].rule \in CompletedRules(k.row)
                  /\ k.column \in SeenTerminals
        /\ \A key \in DOMAIN gr.states : \A t \in SeenTerminals :
              \A i \in CompletedRules(key) :
                  Lookup(gr.actionTable, tableKey(key, t)).type
                      \notin {"shift", "accept"} =>
                          Lookup(gr.actionTable, tableKey(key, t)) = reduceAction(i)

\* The arithmetic grammar is built, and the state of ConstExpr -> number with
\* the dot at its end reduces on every seen terminal, 'expr' among them.
C23_Witness ==
    /\ pc = "built"
    /\ gr.Rules = ArithRules
    /\ "&expr" \in SeenTerminals
    /\ \E key \in DOMAIN gr.states :
          /\ CompletedRules(key) # {}
          /\ \A t \in SeenTerminals :
                Lookup(gr.actionTable, tableKey(key, t)).type = "reduce"

(***************************************************************************)
(* C24                                                                     *)
(***************************************************************************)
\* The state with the key holds the accepting item.
HoldsAcceptingItem(key) ==
    ItemString(AcceptingItem(gr.Rules)) \in ItemStrings(gr.states[key])

\* The cells of ACTION that hold Accept.
AcceptCells ==
    {k \in DOMAIN gr.actionTable : gr.actionTable[k].type = "accept"}

\* C24: after construction ACTION[(s, "_EOF")] = Accept for every state s of
\* the automaton that holds the accepting item (the start rule with the dot
\* at its end), and Accept is in no other cell of ACTION.
C24_AcceptCells ==
    pc = "built" =>
        AcceptCells = {tableKey(key, "_EOF") :
                          key \in {h \in DOMAIN gr.states : HoldsAcceptingItem(h)}}

\* Accept is in no cell but those of column _EOF in a state that holds the
\* accepting item.
C24_AcceptOnlyForAcceptingItem ==
    pc = "built" =>
        \A k \in AcceptCells :
            /\ k.column = "_EOF"
            /\ k.row \in DOMAIN gr.states
            /\ HoldsAcceptingItem(k.row)

\* A state that holds the accepting item and has no Accept on _EOF is the
\* initial state or has an item with _EOF after the dot.
C24_MissingAcceptOnlyAtStartOrUnderShift ==
    pc = "built" =>
        \A key \in DOMAIN gr.states :
            (HoldsAcceptingItem(key) /\ tableKey(key, "_EOF") \notin AcceptCells) =>
                \/ key = StateString(InitialState(gr.Rules))
                \/ HasShift(key, "_EOF")

(***************************************************************************)
(* C25                                                                     *)
(***************************************************************************)
\* The items (rule, dot 0) of the rules whose LHS stands right after a dot
\* of some item of the set.
Predicted(rules, items) ==
    {Item(rules[i].LHS, rules[i].RHS, 0) :
        i \in {j \in 1..Len(rules) :
                  \E it \in items : /\ it.DotPos < Len(it.RHS)
                                    /\ it.RHS[it.DotPos + 1] = rules[j].LHS}}

\* The least item set that contains `items` and is closed under Predicted.
RECURSIVE LeastClosure(_, _)
LeastClosure(rules, items) ==
    IF Predicted(rules, items) \subseteq items THEN items
    ELSE LeastClosure(rules, items \cup Predicted(rules, items))

\* The symbols right after a dot in the item set.
AfterDot(items) ==
    {it.RHS[it.DotPos + 1] : it \in {x \in items : x.DotPos < Len(x.RHS)}}

\* goto(I, X) of the LR(0) construction.
Goto(rules, items, X) ==
    LeastClosure(rules,
        {Item(it.LHS, it.RHS, it.DotPos + 1) :
            it \in {x \in items : /\ x.DotPos < Len(x.RHS)
                                  /\ x.RHS[x.DotPos + 1] = X}})

\* The item sets reachable from those of `sets` under goto.
RECURSIVE ReachableFrom(_, _)
ReachableFrom(rules, sets) ==
    LET succ == {Goto(rules, p[1], p[2]) :
                    p \in UNION {{<<I, Y>> : Y \in AfterDot(I)} : I \in sets}}
    IN  IF succ \subseteq sets THEN sets
        ELSE ReachableFrom(rules, sets \cup succ)

\* The canonical LR(0) collection of the rules.
CanonicalCollection(rules) ==
    ReachableFrom(rules,
        {LeastClosure(rules, {Item(rules[1].LHS, rules[1].RHS, 0)})})

\* The item sets held in the states map.
StateItemSets == {gr.states[k].Items : k \in DOMAIN gr.states}

\* C25: the builder produces the canonical LR(0) collection.  The states map
\* holds exactly the item sets reachable from the closure of the start
\* rule's first item under goto, each once and under its canonical key;
\* closeItems gives the least closed item set; for every state s and symbol
\* X after a dot of s the entry (s, X) is Shift(goto(s, X)) in ACTION when X
\* starts with '_' or '&' and goto(s, X) in GOTO otherwise; and every Shift
\* and GOTO target is a key of the states map.
C25_CanonicalCollection ==
    pc = "built" =>
        /\ StateItemSets = CanonicalCollection(gr.Rules)
        /\ Cardinality(DOMAIN gr.states) = Cardinality(StateItemSets)
        /\ \A k \in DOMAIN gr.states : k = StateString(gr.states[k])
        /\ gr.initialState \in DOMAIN gr.states
        /\ gr.states[gr.initialState].Items
              = LeastClosure(gr.Rules, {Item(gr.Rules[1].LHS, gr.Rules[1].RHS, 0)})
        /\ \A k \in DOMAIN gr.states : \A X \in AfterDot(gr.states[k].Items) :
              LET target == StateString(State(Goto(gr.Rules, gr.states[k].Items, X)))
              IN  /\ closeItems(gr.Rules, Advance(gr.states[k], X))
                        = Goto(gr.Rules, gr.states[k].Items, X)
                  /\ IF FirstByte(X) \in {95, 38}
                     THEN Lookup(gr.actionTable, tableKey(k, X)) = shiftAction(target)
                     ELSE Lookup(gr.gotoTable, tableKey(k, X)) = gotoAction(target)
        /\ \A c \in DOMAIN gr.actionTable :
              gr.actionTable[c].type = "shift" =>
                  gr.actionTable[c].state \in DOMAIN gr.states
        /\ \A c \in DOMAIN gr.gotoTable :
              gr.gotoTable[c].state \in DOMAIN gr.states

\* The arithmetic grammar is built: its collection has more than one state,
\* a closure took more than one round (the initial state holds an item of
\* ConstExpr), and one state is the goto of two states (a state found again
\* and held once).
C25_Witness ==
    /\ pc = "built"
    /\ gr.Rules = ArithRules
    /\ Cardinality(DOMAIN gr.states) = Cardinality(CanonicalCollection(ArithRules))
    /\ Cardinality(DOMAIN gr.states) > 10
    /\ \E k \in DOMAIN gr.states :
          /\ Item("Expr", <<"&expr", "AddExpr">>, 1) \in gr.states[k].Items
          /\ Item("ConstExpr", <<"_NUM">>, 0) \in gr.states[k].Items
    /\ \E k1, k2 \in DOMAIN gr.states :
          /\ k1 # k2
          /\ Lookup(gr.actionTable, tableKey(k1, "_NUM")).type = "shift"
          /\ Lookup(gr.actionTable, tableKey(k1, "_NUM"))
                = Lookup(gr.actionTable, tableKey(k2, "_NUM"))

(***************************************************************************)
(* C26                                                                     *)
(***************************************************************************)
\* The columns of ACTION with an entry in the row of the state.
ColumnsOfState(key) ==
    {c.column : c \in {k \in DOMAIN gr.actionTable : k.row = key}}

\* An iteration of Parse has a Word token in front.
AtWord == pc = "parse" /\ tokens # <<>> /\ token.Type = "Word"

\* The word in front is the literal terminal '&'+w exactly if '&'+w is a
\* column of some entry of ACTION, and the identifier otherwise.
WordClassified ==
    AtWord =>
        symb = IF ("&" \o token.Form) \in Columns(gr.actionTable)
               THEN "&" \o token.Form
               ELSE "_ID"

\* The word in front is a literal terminal of the grammar and the only action
\* of the current state is on _ID.
LiteralWordAtIdentifier ==
    /\ AtWord
    /\ ("&" \o token.Form) \in Columns(gr.actionTable)
    /\ ColumnsOfState(currentState) = {"_ID"}

\* C26: Parse takes a Word token with lexeme w for the literal terminal
\* '&'+w if and only if '&'+w is a column of some ACTION entry, whatever the
\* current state, and for '_ID' otherwise; a word that is a literal terminal
\* is not taken for an identifier even in a state whose only action is on
\* '_ID': Parse then returns an error.
C26_WordClassification ==
    /\ []WordClassified
    /\ [][LiteralWordAtIdentifier =>
              /\ symb # "_ID"
              /\ pc' = "returned"
              /\ ret'.kind = "error"
              /\ ret'.expected = {"identifier"}]_vars

\* Parse of expr expr EOF with the rules S -> A; A -> 'expr' identifier has
\* returned an error at the second word, in the state that has its only
\* action on _ID.
C26_Witness ==
    /\ pc = "returned"
    /\ ret.kind = "error"
    /\ gr.Rules = KeywordRules
    /\ Len(input) = 3
    /\ Len(tokens) = 2
    /\ tokens[1].Type = "Word"
    /\ tokens[1].Form = "expr"
    /\ ColumnsOfState(stateStack[Len(stateStack)]) = {"_ID"}

(***************************************************************************)
(* C27                                                                     *)
(***************************************************************************)
\* No Reduce of ACTION is of rule 0, and no fold called is that of rule 0.
StartRuleNeverReduced ==
    /\ \A k \in DOMAIN gr.actionTable :
          gr.actionTable[k].type = "reduce" => gr.actionTable[k].rule # 0
    /\ fold.kind = "call" => fold.rule # 0
    /\ pc = "parse" /\ tokens # <<>> /\ action.type = "reduce" => action.rule # 0

\* The value is that of the symbol X: a token of the input with the terminal
\* X, or what a fold of a rule with the LHS X has returned.
IsValueOf(X, value) ==
    IF HasTerminalPrefix(X)
    THEN /\ \E k \in 1..Len(input) : value = input[k]
         /\ SymbolOf(value, keywords) = X
    ELSE <<X, value>> \in Returned(gr.Rules, fold)

\* Accept has returned the bottom entry of the result stack as it stands.
ReturnedBottom ==
    Accepted => resultStack # <<>> /\ ret.value = resultStack[1]

\* What Accept has returned is the value of the first symbol on the right of
\* the start rule.
ReturnedFirstOfStartRule ==
    Accepted =>
        /\ gr.Rules[1].RHS # <<>>
        /\ IsValueOf(gr.Rules[1].RHS[1], ret.value)

\* C27: Parse never invokes the fold of the start rule: rule 0 is the target
\* of no Reduce, and on Accept the value returned is the bottom entry of the
\* result stack as it stands, that is the value of the first symbol on the
\* right of the start rule, and not the start rule's fold applied to the
\* values of its right-hand side.
C27_StartFoldNeverInvoked ==
    /\ StartRuleNeverReduced
    /\ ReturnedBottom
    /\ ReturnedFirstOfStartRule

\* The start symbol is on the right of no rule.
StartNotOnRight(rules) ==
    \A i \in 1..Len(rules) : \A j \in 1..Len(rules[i].RHS) :
        rules[i].RHS[j] # rules[1].LHS

\* C27 amended: rule 0 is the target of no Reduce and its fold is never
\* invoked; on Accept the value returned is the bottom entry of the result
\* stack as it stands; and when the start symbol is on the right of no rule
\* that entry is the value of the first symbol on the right of the start
\* rule.
C27_StartFoldNeverInvokedBottomReturned ==
    /\ StartRuleNeverReduced
    /\ ReturnedBottom
    /\ StartNotOnRight(gr.Rules) => ReturnedFirstOfStartRule

\* Parse of two numbers with the rule S -> number number has accepted: no
\* fold was called, the first number's token is returned, and the fold of the
\* start rule on the two tokens gives another value.
C27_Witness ==
    /\ Accepted
    /\ gr.Rules = LongStartRules
    /\ fold.kind = "none"
    /\ Len(resultStack) = 2
    /\ ret.value = input[1]
    /\ ret.value # Conv(gr.Rules[1], resultStack)

(***************************************************************************)
(* C28                                                                     *)
(***************************************************************************)
\* The rules BuildListRules emits for the call.
ListRulesOf(c) ==
    BuildListRules(c.root, c.leaf, c.canBeEmpty, c.leftBracket, c.sep,
                   c.rightBracket)

\* Some symbol on the right of some rule is the empty string.
HasEmptySymbol(rules) ==
    \E i \in 1..Len(rules) : \E j \in 1..Len(rules[i].RHS) :
        rules[i].RHS[j] = ""

\* NewGrammar has panicked over the first character of an empty symbol.
PanickedOverEmptySymbol ==
    /\ pc = "panic"
    /\ stateStack = <<>>
    /\ ret = [kind |-> "panic", msg |-> "index out of range"]

\* C28: every rule BuildListRules emits has only non-empty symbol names on
\* its right, whether the list can be empty or not and whether the left
\* bracket, the right bracket and the separator are given or are the empty
\* string; so NewGrammar on the rules never fails over the first character
\* of an empty transition symbol.
C28_ListRulesWithoutEmptySymbol ==
    config.helper = "BuildListRules" =>
        /\ ~HasEmptySymbol(ListRulesOf(config))
        /\ ~PanickedOverEmptySymbol

\* Without canBeEmpty, or with both brackets, no symbol emitted is empty and
\* NewGrammar does not fail over one; with canBeEmpty and a bracket left
\* out, the rule of the empty list has an empty symbol, and NewGrammar never
\* ends with a Grammar.
C28_EmptySymbolOfEmptyList ==
    config.helper = "BuildListRules" =>
        LET lacking == /\ config.canBeEmpty
                       /\ config.leftBracket = "" \/ config.rightBracket = ""
        IN  /\ HasEmptySymbol(ListRulesOf(config)) <=> lacking
            /\ PanickedOverEmptySymbol => lacking
            /\ lacking => pc \notin {"built", "parse", "returned"}
====
